---- MODULE Spec2Model ----
(***************************************************************************)
(* A model of the change-data-capture path of db_sync: the Debezium bridge *)
(* (core/debezium_engine.py), the engine callback (core/engine.py), the    *)
(* retry wrapper (utils/retry.py), the CDC applier                         *)
(* (handlers/cdc_handler.py) with the schema manager                       *)
(* (handlers/schema_handler.py) and the connector operations it drives     *)
(* (connectors/postgres.py, connectors/mysql.py).                          *)
(***************************************************************************)
EXTENDS Integers, Sequences, FiniteSets, TLC

(***************************************************************************)
(* Bounds of the model.                                                    *)
(***************************************************************************)
\* process_event calls made by a direct caller in SpecApplier
MaxCalls == 2
\* callback invocations of the upstream producer in Spec
MaxEvents == 3
\* queue.Queue(maxsize=10000), scaled down
QueueMaxsize == 2
\* signals delivered to the process in SpecEngine
MaxSignals == 1
\* rows of a source table in SpecLoad
MaxRows == 3
\* threads of the initial load: parallel_tables is 1..MaxWorkers
MaxWorkers == 2
\* calls made on the SchemaHandler in SpecSchema
MaxSchemaCalls == 3
MaxRuns == 2

(***************************************************************************)
(* Program constants.                                                      *)
(***************************************************************************)
\* @with_retry(max_attempts=3, delay_seconds=5)
max_attempts == 3
delay_seconds == 5
backoff_multiplier == 2

(***************************************************************************)
(* Data: tables, columns, rows and the dictionaries of an event.           *)
(***************************************************************************)
\* "t" has the primary key (id), "n" has no primary key; "order_items", with
\* the columns a, b, c and the primary key (a, b), is a table of its own world
Tables == {"t", "n"}
Columns == {"id", "name"}

\* ColumnDefinition / TableSchema.primary_keys of the source schema
primary_keys(t) ==
    IF t = "t" THEN {"id"}
    ELSE IF t = "order_items" THEN {"a", "b"}
    ELSE {}

\* a key that a dict does not hold
ABSENT == "absent"
\* SQL NULL in a stored row
NULL == "NULL"
\* Python None where a dict is expected
NoneImg == [c \in Columns |-> "None"]
\* the dict {}
EmptyImg == [c \in Columns |-> ABSENT]

Img(id, name) == [c \in Columns |-> IF c = "id" THEN id ELSE name]

\* a dict without keys: {}
IsEmpty(img) == \A c \in DOMAIN img : img[c] = ABSENT

\* Python truthiness of an Optional[Dict]: None and {} are falsy
Truthy(img) ==
    /\ img # [c \in DOMAIN img |-> "None"]
    /\ img # [c \in DOMAIN img |-> ABSENT]

(***************************************************************************)
(* OperationType and ChangeEvent (models/change_event.py).                 *)
(***************************************************************************)
CREATE == "c"
UPDATE == "u"
DELETE == "d"
READ == "r"
OperationType == {CREATE, UPDATE, DELETE, READ}

ChangeEvent(op, t, before, after) ==
    [operation |-> op, table_name |-> t, before |-> before, after |-> after]

is_insert(e) == e.operation = CREATE
is_update(e) == e.operation = UPDATE
is_delete(e) == e.operation = DELETE
is_snapshot(e) == e.operation = READ

\* a get_primary_key_values that reads the before image first
get_primary_key_values_of_before(e, pks) ==
    LET data == IF Truthy(e.before) THEN e.before ELSE e.after
    IN  IF ~Truthy(data) THEN [c \in DOMAIN data |-> ABSENT]
        ELSE [c \in DOMAIN data |-> IF c \in pks /\ data[c] # ABSENT
                                    THEN data[c] ELSE ABSENT]

\* {pk: data.get(pk) for pk in primary_keys if pk in data}
get_primary_key_values(e, pks) ==
    LET data == IF Truthy(e.after) THEN e.after ELSE e.before
    IN  IF ~Truthy(data) THEN [c \in DOMAIN data |-> ABSENT]
        ELSE [c \in DOMAIN data |-> IF c \in pks /\ data[c] # ABSENT
                                    THEN data[c] ELSE ABSENT]

(***************************************************************************)
(* Exceptions: the text of str(e), and the substring tests of the applier. *)
(***************************************************************************)
NoExc == "-"
PgDuplicate == "duplicate key value violates unique constraint"
MyDuplicate == "Duplicate entry for key PRIMARY"
UniqueFailed == "UNIQUE constraint failed"
NoRows == "No rows affected"
NotFound == "Row not found"
ConnReset == "connection reset"
AlreadyExists == "table already exists"
NotNull == "null value violates not-null constraint"
ConnClosed == "connection already closed"
UnknownColumn == "column of relation does not exist"

\* str.lower()
lower(m) ==
    CASE m = MyDuplicate -> "duplicate entry for key primary"
      [] m = UniqueFailed -> "unique constraint failed"
      [] m = NoRows -> "no rows affected"
      [] m = NotFound -> "row not found"
      [] OTHER -> m

\* needle in haystack, for the needles the applier looks for
Contains(hay, needle) ==
    <<hay, needle>> \in
        { <<PgDuplicate, "duplicate key">>,
          <<PgDuplicate, "unique constraint">>,
          <<"unique constraint failed", "unique constraint">>,
          <<"no rows affected", "no rows">>,
          <<"row not found", "not found">> }

\* a duplicate test that compares the message as it is written
IsDuplicateErrorCased(m) ==
    Contains(m, "duplicate key") \/ Contains(m, "unique constraint")

\* cdc_handler.py line 73
IsDuplicateError(m) ==
    Contains(lower(m), "duplicate key") \/ Contains(lower(m), "unique constraint")

\* cdc_handler.py line 105
IsMissingRowError(m) ==
    Contains(lower(m), "no rows") \/ Contains(lower(m), "not found")

NoSuchTable == "relation does not exist"
SqlError == "syntax error"

(***************************************************************************)
(* Schemas (models/schema.py) and their conversion                         *)
(* (utils/schema_converter.py).  A type string is the sequence of its      *)
(* parts: a base name, a parenthesized parameter suffix, a time zone       *)
(* qualifier.                                                              *)
(***************************************************************************)
WithoutTimeZone == " WITHOUT TIME ZONE"
WithTimeZone == " WITH TIME ZONE"
\* the parts that start with "("
Parameters == {"(6)", "(255)", "(10,2)"}

\* str.upper() of a part
upper(part) ==
    CASE part = "timestamp" -> "TIMESTAMP"
      [] part = "varchar" -> "VARCHAR"
      [] part = "integer" -> "INTEGER"
      [] part = "int" -> "INT"
      [] part = " without time zone" -> WithoutTimeZone
      [] part = " with time zone" -> WithTimeZone
      [] OTHER -> part

\* s.replace(old, ''), old being one part
replace(type, old) == SelectSeq(type, LAMBDA part : part # old)

\* the index of the first part that starts with "(", 0 when there is none
index(type) ==
    IF \E i \in 1..Len(type) : type[i] \in Parameters
    THEN CHOOSE i \in 1..Len(type) :
            /\ type[i] \in Parameters
            /\ \A j \in 1..(i - 1) : type[j] \notin Parameters
    ELSE 0

\* s.split('(')[0].strip() of a type whose text before "(" is one part
split(type) ==
    LET before == IF index(type) = 0 THEN type
                  ELSE SubSeq(type, 1, index(type) - 1)
    IN  IF before = <<>> THEN "" ELSE before[1]

\* SchemaConverter.TYPE_MAPPINGS[(source_type, target_type)]; the key
\* 'TINYINT(1)' of the MySQL map is never looked up, a base holds no "("
TYPE_MAPPINGS(source_type, target_type) ==
    IF source_type = "postgresql" /\ target_type = "mysql"
    THEN [b \in {"BIGINT", "INTEGER", "INT4", "SMALLINT", "SERIAL", "BIGSERIAL",
                 "NUMERIC", "REAL", "DOUBLE PRECISION", "VARCHAR", "CHAR",
                 "TEXT", "BOOLEAN", "DATE", "TIMESTAMP", "TIMESTAMPTZ", "TIME",
                 "JSON", "JSONB", "UUID", "BYTEA"} |->
            CASE b \in {"INTEGER", "INT4"} -> <<"INT">>
              [] b \in {"SERIAL", "BIGSERIAL"} -> <<"BIGINT">>
              [] b = "NUMERIC" -> <<"DECIMAL">>
              [] b = "REAL" -> <<"FLOAT">>
              [] b = "DOUBLE PRECISION" -> <<"DOUBLE">>
              [] b = "BOOLEAN" -> <<"TINYINT(1)">>
              [] b \in {"TIMESTAMP", "TIMESTAMPTZ"} -> <<"DATETIME">>
              [] b = "JSONB" -> <<"JSON">>
              [] b = "UUID" -> <<"CHAR(36)">>
              [] b = "BYTEA" -> <<"BLOB">>
              [] OTHER -> <<b>>]
    ELSE IF source_type = "mysql" /\ target_type = "postgresql"
    THEN [b \in {"BIGINT", "INT", "SMALLINT", "DECIMAL", "FLOAT", "DOUBLE",
                 "VARCHAR", "CHAR", "TEXT", "DATE", "DATETIME", "TIME", "JSON",
                 "BLOB"} |->
            CASE b = "INT" -> <<"INTEGER">>
              [] b = "DECIMAL" -> <<"NUMERIC">>
              [] b = "FLOAT" -> <<"REAL">>
              [] b = "DOUBLE" -> <<"DOUBLE PRECISION">>
              [] b = "DATETIME" -> <<"TIMESTAMP">>
              [] b = "JSON" -> <<"JSONB">>
              [] b = "BLOB" -> <<"BYTEA">>
              [] OTHER -> <<b>>]
    ELSE [b \in {} |-> <<b>>]

\* SchemaConverter._convert_type
convert_type(data_type, type_map) ==
    LET normalized_type == [i \in 1..Len(data_type) |-> upper(data_type[i])]
        base_type_lookup == replace(replace(normalized_type, WithoutTimeZone),
                                    WithTimeZone)
        base_type == split(base_type_lookup)
        converted_base == IF base_type \in DOMAIN type_map
                          THEN type_map[base_type] ELSE <<base_type>>
    IN  IF index(normalized_type) # 0
        THEN converted_base \o SubSeq(normalized_type, index(normalized_type),
                                      Len(normalized_type))
        ELSE converted_base

\* Python None as the default of a column
None == "None"
Nextval == "nextval('t_id_seq'::regclass)"
NextvalUpper == "NEXTVAL('t_id_seq'::regclass)"

ColumnDefinition(name, data_type, nullable, default, is_primary_key) ==
    [name |-> name, data_type |-> data_type, nullable |-> nullable,
     default |-> default, is_primary_key |-> is_primary_key]

\* 'nextval' in col.default.lower()
HasNextval(default) == default \in {Nextval, NextvalUpper}

\* SchemaConverter.convert_schema, on the columns of the schema
convert_schema(columns, source_type, target_type) ==
    IF source_type = target_type THEN columns
    ELSE IF DOMAIN TYPE_MAPPINGS(source_type, target_type) = {} THEN columns
    ELSE [i \in 1..Len(columns) |->
            [columns[i] EXCEPT
                !.data_type = convert_type(@, TYPE_MAPPINGS(source_type, target_type)),
                !.default = IF /\ source_type = "postgresql"
                               /\ target_type = "mysql"
                               /\ columns[i].is_primary_key
                               /\ HasNextval(@)
                            THEN None ELSE @]]

\* an is_autoincrement that no column satisfies
is_autoincrement_never(col) == FALSE

\* MySQLConnector.create_table: is_autoincrement
is_autoincrement(col) ==
    /\ col.is_primary_key
    /\ split([i \in 1..Len(col.data_type) |-> upper(col.data_type[i])])
          \in {"INT", "BIGINT", "SMALLINT"}

\* MySQLConnector.create_table: the definition of one column, in its clauses
col_def(col) ==
    <<col.name>> \o col.data_type \o
    (IF is_autoincrement(col) THEN <<" NOT NULL AUTO_INCREMENT">>
     ELSE (IF ~col.nullable THEN <<" NOT NULL">> ELSE <<>>) \o
          (IF col.default # None THEN <<" DEFAULT", col.default>> ELSE <<>>))

\* MySQLConnector.create_table: columns_sql
columns_sql(columns) == [i \in 1..Len(columns) |-> col_def(columns[i])]

(***************************************************************************)
(* The world one attempt of process_event works on: the target database as *)
(* seen through the shared target connection, the schema cache, the        *)
(* statistics, the connector calls made so far and the pending exception.  *)
(***************************************************************************)
\* a stored row: every column of the table, NULL where no value was given
ToRow(img) == [c \in DOMAIN img |-> IF img[c] = ABSENT THEN NULL ELSE img[c]]

\* WHERE k1 = v1 AND k2 = v2 ... over the keys of the dict
Matches(row, keys) ==
    \A c \in DOMAIN keys : keys[c] # ABSENT => row[c] = keys[c]

\* SET k1 = v1, ... over the keys of the dict
Merge(row, values) ==
    [c \in DOMAIN row |-> IF values[c] # ABSENT THEN values[c] ELSE row[c]]

\* the fault the environment injects into one attempt: the nth invocation of
\* a connector call raises an exception with a message
\* a connector call in such an attempt, and the driver's message for a
\* duplicate primary key (psycopg2's or mysql.connector's)
DuplicateMessages == {PgDuplicate, MyDuplicate}
Fault(call, nth, msg, dup) == [call |-> call, nth |-> nth, msg |-> msg, dup |-> dup]
Faults ==
    { Fault("none", 0, NoExc, d) : d \in DuplicateMessages }
    \cup { Fault("table_exists", n, ConnReset, PgDuplicate) : n \in 1..2 }
    \cup { Fault("insert_batch", 1, m, PgDuplicate) : m \in {UniqueFailed, ConnReset} }
    \cup { Fault("update_row", 1, m, d) :
              m \in {NoRows, NotFound, ConnReset}, d \in DuplicateMessages }
    \cup { Fault("delete_row", 1, ConnReset, PgDuplicate) }

Invocations(s, op) ==
    Cardinality({i \in 1..Len(s.calls) : s.calls[i].op = op})

\* a call on a closed connection raises whichever call it is
Raises(s, f, op) ==
    \/ f.call = "closed"
    \/ f.call = op /\ f.nth = Invocations(s, op) + 1

Log(s, f, op, t, keys, values, raised) ==
    [s EXCEPT !.calls = Append(@, [op |-> op, table |-> t, keys |-> keys,
                                   values |-> values, raised |-> raised,
                                   injected |-> Raises(s, f, op)]),
              !.exc = raised]

\* connection.commit()
Commit(s) == [s EXCEPT !.committed = s.rows]

\* BaseConnector.table_exists on the target; the answer is t \in s.tables
table_exists(s, f, t) ==
    Log(s, f, "table_exists", t, EmptyImg, EmptyImg,
        IF Raises(s, f, "table_exists") THEN f.msg ELSE NoExc)

\* BaseConnector.get_table_schema on the source
get_table_schema(s, f, t) ==
    Log(s, f, "get_table_schema", t, EmptyImg, EmptyImg,
        IF Raises(s, f, "get_table_schema") THEN f.msg ELSE NoExc)

\* a create_table that declares no PRIMARY KEY
create_table_without_key(s, f, t, pks) ==
    IF Raises(s, f, "create_table")
    THEN Log(s, f, "create_table", t, EmptyImg, EmptyImg, f.msg)
    ELSE IF t \in s.tables
    THEN Log(s, f, "create_table", t, EmptyImg, EmptyImg, AlreadyExists)
    ELSE Commit([Log(s, f, "create_table", t, EmptyImg, EmptyImg, NoExc)
                    EXCEPT !.tables = @ \cup {t}, !.pk[t] = {}])

\* create_table: CREATE TABLE with PRIMARY KEY (schema.primary_keys), commit
create_table(s, f, t, pks) ==
    IF Raises(s, f, "create_table")
    THEN Log(s, f, "create_table", t, EmptyImg, EmptyImg, f.msg)
    ELSE IF t \in s.tables
    THEN Log(s, f, "create_table", t, EmptyImg, EmptyImg, AlreadyExists)
    ELSE Commit([Log(s, f, "create_table", t, EmptyImg, EmptyImg, NoExc)
                    EXCEPT !.tables = @ \cup {t}, !.pk[t] = pks])

\* the value of body for the world v, v evaluated once
Bind(v, body(_)) == CHOOSE r \in {body(x) : x \in {v}} : TRUE

\* a statement after another: an exception of the first ends the block
Then(s, rest(_)) == Bind(s, LAMBDA x : IF x.exc # NoExc THEN x ELSE rest(x))

\* the error an INSERT of img into t ends with
\* the names of the columns of a schema
Names(columns) == {columns[i].name : i \in 1..Len(columns)}

\* whether a statement names a column the table does not have
NamesUnknownColumn(s, t, img) ==
    \E c \in DOMAIN img : img[c] # ABSENT /\ c \notin Names(s.target_columns[t])

insert_error(s, f, t, img) ==
    IF Raises(s, f, "insert_batch") THEN f.msg
    ELSE IF t \notin s.tables THEN NoSuchTable
    ELSE IF NamesUnknownColumn(s, t, img) THEN UnknownColumn
    ELSE IF \E c \in s.pk[t] : img[c] = ABSENT THEN NotNull
    ELSE IF s.pk[t] # {} /\
            \E i \in 1..Len(s.rows[t]) :
                \A c \in s.pk[t] : s.rows[t][i][c] = img[c]
         THEN f.dup
    ELSE NoExc

\* insert_batch(table, [img]): INSERT, no commit
insert_batch(s, f, t, img) ==
    Then(Log(s, f, "insert_batch", t, EmptyImg, img, insert_error(s, f, t, img)),
         LAMBDA s1 : [s1 EXCEPT !.rows[t] = Append(@, ToRow(img))])

\* the error an UPDATE ends with; an UPDATE that matches no row ends with none
update_error(s, f, t, keys, values) ==
    IF Raises(s, f, "update_row") THEN f.msg
    ELSE IF t \notin s.tables THEN NoSuchTable
    ELSE IF IsEmpty(keys) \/ IsEmpty(values) THEN SqlError
    ELSE IF NamesUnknownColumn(s, t, values) THEN UnknownColumn
    ELSE NoExc

\* update_row(table, pk_values, values): UPDATE ... WHERE pk, commit
update_row(s, f, t, keys, values) ==
    Then(Log(s, f, "update_row", t, keys, values, update_error(s, f, t, keys, values)),
         LAMBDA s1 : Commit([s1 EXCEPT !.rows[t] =
                        [i \in 1..Len(@) |->
                            IF Matches(@[i], keys) THEN Merge(@[i], values)
                            ELSE @[i]]]))

RECURSIVE Without(_, _)
\* the rows of a table that a WHERE clause does not match, in order
Without(rows, keys) ==
    IF rows = <<>> THEN <<>>
    ELSE IF Matches(Head(rows), keys) THEN Without(Tail(rows), keys)
    ELSE <<Head(rows)>> \o Without(Tail(rows), keys)

\* the error a DELETE ends with
delete_error(s, f, t, keys) ==
    IF Raises(s, f, "delete_row") THEN f.msg
    ELSE IF t \notin s.tables THEN NoSuchTable
    ELSE IF IsEmpty(keys) THEN SqlError
    ELSE NoExc

\* delete_row(table, pk_values): DELETE ... WHERE pk, commit
delete_row(s, f, t, keys) ==
    Then(Log(s, f, "delete_row", t, keys, EmptyImg, delete_error(s, f, t, keys)),
         LAMBDA s1 : Commit([s1 EXCEPT !.rows[t] = Without(@, keys)]))

(***************************************************************************)
(* SchemaHandler (handlers/schema_handler.py).                             *)
(***************************************************************************)
\* self.schema_cache[table_name] = schema
Cached(s, t) == [s EXCEPT !.schema_cache = @ \cup {t}]

\* an except clause that swallows the exception
Caught(s) == [s EXCEPT !.exc = NoExc]

\* target.get_table_schema(table_name), of _sync_schema_changes
target_get_table_schema(s, f, t) ==
    Log(s, f, "target.get_table_schema", t, EmptyImg, EmptyImg,
        IF Raises(s, f, "target.get_table_schema") THEN f.msg ELSE NoExc)

\* alter_table_add_column(table_name, column): ALTER TABLE ADD COLUMN, commit
alter_table_add_column(s, f, t, col) ==
    Then(Log(s, f, "alter_table_add_column", t, EmptyImg, EmptyImg,
             IF Raises(s, f, "alter_table_add_column") THEN f.msg
             ELSE IF col.name \in Names(s.target_columns[t]) THEN AlreadyExists
             ELSE NoExc),
         LAMBDA s1 : Commit([s1 EXCEPT
                        !.target_columns[t] = Append(@, col),
                        !.added = Append(@, [table |-> t, name |-> col.name])]))

RECURSIVE add_new_columns(_, _, _, _, _)
\* for col_name, col_def in new_columns.items():
\*     if col_name not in current_columns: alter_table_add_column
add_new_columns(s, f, t, new_columns, current_columns) ==
    IF new_columns = <<>> THEN s
    ELSE IF Head(new_columns).name \in current_columns
    THEN add_new_columns(s, f, t, Tail(new_columns), current_columns)
    ELSE Then(alter_table_add_column(s, f, t, Head(new_columns)), LAMBDA s1 :
              add_new_columns(s1, f, t, Tail(new_columns), current_columns))

\* a _sync_schema_changes that makes the target's columns those of the source
sync_schema_changes_replacing(s, f, t, new_schema) ==
    [s EXCEPT !.target_columns[t] = new_schema]

\* _sync_schema_changes: add the columns the target lacks; an exception is
\* logged and ends the pass
sync_schema_changes(s, f, t, new_schema) ==
    Caught(Then(target_get_table_schema(s, f, t), LAMBDA s1 :
                add_new_columns(s1, f, t, new_schema,
                                Names(s1.target_columns[t]))))

\* convert_schema(source_schema, source type, target type)
target_schema(s, t) ==
    convert_schema(s.source_columns[t], s.source_type, s.target_type)

\* sync_table_schema: fetch the source schema, convert, create the target
\* table when it is absent, else add the columns it lacks when
\* auto_detect_changes is set; update the cache
sync_table_schema(s, f, t) ==
    Then(get_table_schema(s, f, t), LAMBDA s1 :
    Then(table_exists(s1, f, t), LAMBDA s2 :
         IF t \notin s2.tables
         THEN Then(create_table(s2, f, t, primary_keys(t)),
                   LAMBDA s3 : Cached([s3 EXCEPT !.target_columns[t] =
                                          target_schema(s3, t)], t))
         ELSE IF s2.auto_detect_changes
         THEN Then(sync_schema_changes(s2, f, t, target_schema(s2, t)),
                   LAMBDA s3 : Cached(s3, t))
         ELSE Cached(s2, t)))

\* a get_or_sync_schema that never looks into the cache
get_or_sync_schema_uncached(s, f, t) ==
    Then(get_table_schema(s, f, t), LAMBDA s1 :
    Then(table_exists(Cached(s1, t), f, t), LAMBDA s3 :
         IF t \notin s3.tables THEN sync_table_schema(s3, f, t)
         ELSE s3))

\* get_or_sync_schema: the cached schema, or fetch, cache and sync
get_or_sync_schema(s, f, t) ==
    IF t \in s.schema_cache THEN s
    ELSE Then(get_table_schema(s, f, t), LAMBDA s1 :
         Then(table_exists(Cached(s1, t), f, t), LAMBDA s3 :
              IF t \notin s3.tables THEN sync_table_schema(s3, f, t)
              ELSE s3))

(***************************************************************************)
(* CDCHandler (handlers/cdc_handler.py).                                   *)
(***************************************************************************)
Count(s, k) == [s EXCEPT !.stats[k] = @ + 1]

\* an update that counts the fallback insert as an update
update_or_insert_as_update(s2, f, e) ==
    IF s2.exc = NoExc THEN Count(s2, "updates")
    ELSE IF IsMissingRowError(s2.exc)
    THEN Then(insert_batch(Caught(s2), f, e.table_name, e.after),
              LAMBDA s3 : Count(s3, "updates"))
    ELSE s2

\* _handle_update, lines 97-110: update_row, and the insert fallback
update_or_insert(s2, f, e) ==
    IF s2.exc = NoExc THEN Count(s2, "updates")
    ELSE IF IsMissingRowError(s2.exc)
    THEN Then(insert_batch(Caught(s2), f, e.table_name, e.after),
              LAMBDA s3 : Count(s3, "inserts"))
    ELSE s2

\* a _handle_update that does not read conflict_resolution
handle_update_source_wins(s, f, e, cfg) ==
    IF ~Truthy(e.after) THEN s
    ELSE Then(get_or_sync_schema(s, f, e.table_name), LAMBDA s1 :
         LET pk_values == get_primary_key_values(e, primary_keys(e.table_name))
         IN  IF IsEmpty(pk_values) THEN s1
             ELSE Bind(update_row(s1, f, e.table_name, pk_values, e.after),
                       LAMBDA s2 : update_or_insert(s2, f, e)))

handle_update(s, f, e, cfg) ==
    IF ~Truthy(e.after) THEN s
    ELSE Then(get_or_sync_schema(s, f, e.table_name), LAMBDA s1 :
         LET pk_values == get_primary_key_values(e, primary_keys(e.table_name))
         IN  IF IsEmpty(pk_values) THEN s1
             ELSE IF cfg.conflict_resolution = "target_wins" THEN s1
             ELSE Bind(update_row(s1, f, e.table_name, pk_values, e.after),
                       LAMBDA s2 : update_or_insert(s2, f, e)))

\* _handle_insert, lines 69-77: the insert, and the duplicate fallback
insert_or_update(s1, f, e, cfg) ==
    IF s1.exc = NoExc THEN Count(s1, "inserts")
    ELSE IF IsDuplicateError(s1.exc) THEN handle_update(Caught(s1), f, e, cfg)
    ELSE s1

handle_insert(s, f, e, cfg) ==
    IF ~Truthy(e.after) THEN s
    ELSE Bind(insert_batch(s, f, e.table_name, e.after),
              LAMBDA s1 : insert_or_update(s1, f, e, cfg))

\* a _handle_delete whose except clause lets the error through
delete_or_raise(s2) ==
    IF s2.exc = NoExc THEN Count(s2, "deletes") ELSE s2

\* _handle_delete, lines 129-135: delete_row; its error is logged
delete_or_log(s2) ==
    IF s2.exc = NoExc THEN Count(s2, "deletes") ELSE Caught(s2)

\* a _handle_delete that does not read apply_deletes
handle_delete_always(s, f, e, cfg) ==
    IF ~Truthy(e.before) THEN s
    ELSE Then(get_or_sync_schema(s, f, e.table_name), LAMBDA s1 :
         LET pk_values == get_primary_key_values(e, primary_keys(e.table_name))
         IN  IF IsEmpty(pk_values) THEN s1
             ELSE Bind(delete_row(s1, f, e.table_name, pk_values),
                       LAMBDA s2 : delete_or_log(s2)))

handle_delete(s, f, e, cfg) ==
    IF ~cfg.apply_deletes THEN s
    ELSE IF ~Truthy(e.before) THEN s
    ELSE Then(get_or_sync_schema(s, f, e.table_name), LAMBDA s1 :
         LET pk_values == get_primary_key_values(e, primary_keys(e.table_name))
         IN  IF IsEmpty(pk_values) THEN s1
             ELSE Bind(delete_row(s1, f, e.table_name, pk_values),
                       LAMBDA s2 : delete_or_log(s2)))

\* lines 40-44: ensure the table exists in the target; the schema handed to
\* create_table is the one get_or_sync_schema returns, the cached schema of
\* the source
ensure_table(s, f, t) ==
    Then(table_exists(s, f, t), LAMBDA s1 :
         IF t \in s1.tables THEN s1
         ELSE Then(get_or_sync_schema(s1, f, t), LAMBDA s2 :
              Then(create_table(s2, f, t, primary_keys(t)), LAMBDA s3 :
                   [s3 EXCEPT !.target_columns[t] = s3.source_columns[t]])))

\* lines 46-54: route to the handler of the operation
route(s, f, e, cfg) ==
    IF is_insert(e) THEN handle_insert(s, f, e, cfg)
    ELSE IF is_update(e) THEN handle_update(s, f, e, cfg)
    ELSE IF is_delete(e) THEN handle_delete(s, f, e, cfg)
    ELSE IF is_snapshot(e) THEN handle_insert(s, f, e, cfg)
    ELSE s

\* an except clause that re-raises without counting
count_error_never(s) == s

\* lines 56-59: except Exception: stats['errors'] += 1; raise
count_error(s) == IF s.exc # NoExc THEN Count(s, "errors") ELSE s

\* one attempt of process_event: the body under the retry wrapper
process_event(s, f, e, cfg) ==
    Bind(Then(ensure_table(s, f, e.table_name),
              LAMBDA s1 : route(s1, f, e, cfg)),
         LAMBDA s2 : count_error(s2))

(***************************************************************************)
(* with_retry (utils/retry.py): what the wrapper does after one attempt    *)
(* that ended with exception exc (NoExc: it returned).                     *)
(***************************************************************************)
\* a wrapper that goes on after the last attempt
with_retry_unbounded(att, exc) ==
    IF exc = NoExc THEN "return" ELSE "retry"

with_retry(att, exc) ==
    IF exc = NoExc THEN "return"
    ELSE IF att = max_attempts THEN "raise"
    ELSE "retry"

(***************************************************************************)
(* State.                                                                  *)
(***************************************************************************)
VARIABLES
    target,          \* the target database behind target_connector
    schema_cache,    \* SchemaHandler.schema_cache (its keys)
    stats,           \* CDCHandler.stats
    config,          \* sync.cdc: apply_deletes, conflict_resolution
    pc,              \* where the thread that applies events stands
    cur,             \* the event process_event was called with
    attempt,         \* with_retry: attempt
    current_delay,   \* with_retry: current_delay
    raised,          \* the exception process_event's wrapper let out
    last,            \* history: the last attempt, with the state before it
    applied,         \* history: the finished process_event calls
    called           \* history: the connector operations ever invoked

applierVars ==
    <<target, schema_cache, stats, config, pc, cur, attempt, current_delay,
      raised, last, applied, called>>

VARIABLES
    change_queue,     \* DebeziumEmbeddedEngine.change_queue
    running,          \* DebeziumEmbeddedEngine.running
    bridge,           \* the bridge: "new", "started", "stopping", "stopped"
    envelope_key,     \* the top-level key under which the producer puts the change
    accepts,          \* the number of accept() calls of the producer
    events_processed, \* CDCEngine.stats['events_processed']
    produced,         \* history: the payloads accept() has enqueued
    dequeued,         \* history: the payloads the consumer has taken
    handed            \* history: the records handed to change_consumer

bridgeVars ==
    <<change_queue, running, bridge, envelope_key, accepts, events_processed,
      produced, dequeued, handed>>

VARIABLES
    main,             \* where the main thread is in CDCEngine.start()/stop()
    engine_running,   \* CDCEngine.running
    signals,          \* history: how many signals were delivered
    target_open       \* the target connection of the engine is open

engineVars == <<main, engine_running, signals, target_open>>

VARIABLES
    source,           \* the source database: its tables, in order, and rows
    load_config,      \* InitialLoadConfig
    load_fault,       \* the call of the load that the environment fails
    conn,             \* native connections, the connectors' own, the handles
    load,             \* InitialLoadHandler: tables, progress, history
    workers           \* the threads in _load_table

loadVars == <<source, load_config, load_fault, conn, load, workers>>

VARIABLES
    schema,           \* SchemaHandler's flag, the two dialects, the columns
                      \* of the tables in the source and in the target
    schema_calls      \* history: the calls made on the SchemaHandler

schemaVars == <<schema, schema_calls>>

VARIABLES
    arg,              \* the function called and its arguments
    result            \* what it returned

callVars == <<arg, result>>

vars == <<applierVars, bridgeVars, engineVars, loadVars, schemaVars, callVars>>

\* the columns of the two tables in the source
IdColumn == ColumnDefinition("id", <<"INTEGER">>, FALSE, Nextval, TRUE)
IdNoKey == ColumnDefinition("id", <<"INTEGER">>, TRUE, None, FALSE)
NameColumn == ColumnDefinition("name", <<"VARCHAR", "(255)">>, TRUE, None, FALSE)
StatusColumn == ColumnDefinition("status", <<"TEXT">>, TRUE, None, FALSE)

\* the schemas do not differ and do not change
NoSchema ==
    /\ schema \in
         {[auto_detect_changes |-> TRUE,
           source_type |-> "postgresql", target_type |-> "mysql",
           source_columns |-> src,
           target_columns |-> [t \in Tables |->
                                  convert_schema(src[t], "postgresql", "mysql")]] :
             src \in {[t \in Tables |-> IF primary_keys(t) = {}
                                        THEN <<IdNoKey, NameColumn>>
                                        ELSE <<IdColumn, NameColumn>>]}}
    /\ schema_calls = <<>>

\* no function is called on its own
NoCall ==
    /\ arg = [fn |-> "-"]
    /\ result = [fn |-> "-"]

\* a thread that is not in _load_table
Idle == [table |-> "-", connection |-> 0, cursor |-> 0, fetched |-> 0]

\* no native connection yet: connector.connection is None
NoConnections ==
    [opened |-> 0, open |-> {}, source |-> 0, target |-> 0, returned |-> 0,
     handles |-> {}]

\* InitialLoadHandler.__init__
NewLoad ==
    [pc |-> "new", needed |-> FALSE, tables_to_sync |-> <<>>, pending |-> <<>>,
     completed_tables |-> {}, failed_tables |-> {},
     batches |-> [t \in Tables |-> 0], inserted |-> [t \in Tables |-> <<>>],
     failures |-> 0,
     log |-> [t \in Tables |-> <<>>], target_rows |-> [t \in Tables |-> <<>>],
     loaders |-> <<>>, schema_log |-> <<>>, run |-> 1]

\* the initial load is not part of the specification
NoLoad ==
    /\ source = [tables |-> <<>>, rows |-> [t \in Tables |-> <<>>]]
    /\ load_config = [enabled |-> FALSE, batch_size |-> 1, parallel_tables |-> 1,
                      include_tables |-> {}, exclude_tables |-> {}]
    /\ load_fault = Fault("none", 0, NoExc, PgDuplicate)
    /\ conn = NoConnections
    /\ load = [NewLoad EXCEPT !.pc = "none"]
    /\ workers = [w \in 1..MaxWorkers |-> Idle]

Zero == [k \in {"inserts", "updates", "deletes", "errors"} |-> 0]

NoEvent == ChangeEvent("-", "-", NoneImg, NoneImg)

NoAttempt ==
    [event |-> NoEvent, attempt |-> 0, calls |-> <<>>, exc |-> NoExc,
     stats |-> Zero, rows |-> [t \in Tables |-> <<>>], tables |-> {},
     faulted |-> FALSE, had_row |-> FALSE]

\* the events a caller hands to process_event
ChangeEvents ==
    { ChangeEvent(CREATE, "t", NoneImg, Img("1", "a")),
      ChangeEvent(CREATE, "t", NoneImg, EmptyImg),
      ChangeEvent(CREATE, "n", NoneImg, Img("1", "a")),
      ChangeEvent(READ, "t", NoneImg, Img("1", "a")),
      ChangeEvent(UPDATE, "t", Img("1", "a"), Img("1", "b")),
      ChangeEvent(UPDATE, "t", Img("1", "a"), Img(ABSENT, "a")),
      ChangeEvent(DELETE, "t", Img("1", "a"), NoneImg),
      ChangeEvent(DELETE, "t", NoneImg, NoneImg) }

\* the target at start: tables the initial load created, with or without a row
InitTargets ==
    { [tables |-> ts, pk |-> [t \in Tables |-> primary_keys(t)],
       rows |-> [t \in Tables |-> IF t \in withRow THEN <<ToRow(Img("1", "a"))>> ELSE <<>>],
       committed |-> [t \in Tables |-> IF t \in withRow THEN <<ToRow(Img("1", "a"))>> ELSE <<>>]] :
        ts \in {{}, Tables}, withRow \in {{}, {"t"}} }

InitApplierState ==
    /\ target \in {tg \in InitTargets : \A t \in Tables : tg.rows[t] # <<>> => t \in tg.tables}
    /\ schema_cache \in {{}, target.tables}
    /\ stats = Zero
    /\ config \in [apply_deletes : BOOLEAN,
                   conflict_resolution : {"source_wins", "target_wins"}]
    /\ cur = NoEvent
    /\ attempt = 0
    /\ current_delay = 0
    /\ raised = NoExc
    /\ last = NoAttempt
    /\ applied = <<>>
    /\ called = {}

\* the world of an attempt, from the state
World ==
    [tables |-> target.tables, pk |-> target.pk,
     rows |-> target.rows, committed |-> target.committed,
     schema_cache |-> schema_cache, stats |-> stats,
     auto_detect_changes |-> schema.auto_detect_changes,
     source_type |-> schema.source_type, target_type |-> schema.target_type,
     source_columns |-> schema.source_columns,
     target_columns |-> schema.target_columns, added |-> <<>>,
     calls |-> <<>>, exc |-> NoExc]

\* whether the target holds a row with the primary key of the event's data
HasRow(tg, e) ==
    LET keys == get_primary_key_values(e, primary_keys(e.table_name))
    IN  /\ e.table_name \in tg.tables
        /\ \E i \in 1..Len(tg.rows[e.table_name]) :
               Matches(tg.rows[e.table_name][i], keys)

Injected(calls) == \E i \in 1..Len(calls) : calls[i].injected

\* wrapper(event): enter the retry loop
EnterProcessEvent(e) ==
    /\ cur' = e
    /\ attempt' = 1
    /\ current_delay' = delay_seconds
    /\ raised' = NoExc

\* history: whether the environment has failed a connector call in this call
\* of process_event, up to the attempt that ended in world s
FaultedSoFar(s) ==
    (IF attempt = 1 THEN FALSE ELSE last.faulted) \/ Injected(s.calls)

\* history: whether the target held the event's row when process_event was
\* called
HadRow == IF attempt = 1 THEN HasRow(target, cur) ELSE last.had_row

\* what an attempt that ended in world s leaves behind
AttemptEnds(s, outcome) ==
    /\ target' = [tables |-> s.tables, pk |-> s.pk,
                  rows |-> s.rows, committed |-> s.committed]
    /\ schema_cache' = s.schema_cache
    /\ schema' = [schema EXCEPT !.target_columns = s.target_columns]
    /\ stats' = s.stats
    /\ last' = [event |-> cur, attempt |-> attempt, calls |-> s.calls,
                exc |-> s.exc, stats |-> stats, rows |-> target.rows,
                tables |-> target.tables,
                faulted |-> FaultedSoFar(s), had_row |-> HadRow]
    /\ called' = called \cup {s.calls[i].op : i \in 1..Len(s.calls)}
    /\ pc' = CASE outcome = "return" -> "returned"
               [] outcome = "raise" -> "raised"
               [] OTHER -> "attempt"
    /\ raised' = IF outcome = "raise" THEN s.exc ELSE NoExc
    /\ attempt' = IF outcome = "retry" THEN attempt + 1 ELSE attempt
    /\ current_delay' = IF outcome = "retry"
                        THEN current_delay * backoff_multiplier
                        ELSE current_delay
    /\ applied' = IF outcome = "retry" THEN applied
                  ELSE Append(applied,
                         [event |-> cur, raised |-> (outcome = "raise"),
                          attempts |-> attempt,
                          faulted |-> FaultedSoFar(s), had_row |-> HadRow])

\* the attempt's world goes to the retry wrapper
AttemptIn(s) == AttemptEnds(s, with_retry(attempt, s.exc))

\* the target connection was closed: every call on it raises
ClosedFaults == {Fault("closed", 0, ConnClosed, PgDuplicate)}

\* one pass of the retry loop: func(*args), then return, raise or sleep
ProcessEventAttempt(injectable) ==
    /\ pc = "attempt"
    /\ \E f \in (IF target_open THEN injectable ELSE ClosedFaults) :
           \E s \in {process_event(World, f, cur, config)} : AttemptIn(s)
    /\ UNCHANGED <<config, cur, bridgeVars, engineVars, loadVars, schema_calls,
                   callVars>>

(***************************************************************************)
(* The bridge (core/debezium_engine.py) and the engine callback            *)
(* (core/engine.py).                                                       *)
(***************************************************************************)
\* what event.value() gives accept(): a JSON text, a text that is no JSON,
\* or None
Envelope(key, op, t, before, after) ==
    [json |-> "object", key |-> key, op |-> op, table |-> t,
     before |-> before, after |-> after]
BadJson == [Envelope("-", "-", "-", NoneImg, NoneImg) EXCEPT !.json = "malformed"]
Tombstone == [Envelope("-", "-", "-", NoneImg, NoneImg) EXCEPT !.json = "None"]

\* the changes a producer emits, under its top-level key
Changes(key) ==
    { Envelope(key, CREATE, "t", NoneImg, Img("1", "a")),
      Envelope(key, DELETE, "t", Img("1", "a"), NoneImg) }

ProducerValues(key) == Changes(key) \cup {BadJson, Tombstone}

\* op_mapping of from_debezium_message
op_mapping == [op \in {"c", "u", "d", "r"} |->
                 CASE op = "c" -> CREATE
                   [] op = "u" -> UPDATE
                   [] op = "d" -> DELETE
                   [] op = "r" -> READ]

\* the operation an op outside op_mapping would have with op_mapping[op]
KeyError == "KeyError"

\* a from_debezium_message that looks the op up with op_mapping[op]
from_debezium_message_strict(value) ==
    ChangeEvent(IF value.op \in DOMAIN op_mapping THEN op_mapping[value.op]
                ELSE KeyError,
                value.table, value.before, value.after)

\* ChangeEvent.from_debezium_message({'payload': value}); a payload without
\* the key 'op' has value.op = ABSENT, and op_mapping.get(None) is the default
from_debezium_message(value) ==
    ChangeEvent(IF value.op \in DOMAIN op_mapping THEN op_mapping[value.op]
                ELSE READ,
                value.table, value.before, value.after)

\* record.get('value') of the engine callback: the change, when it is there
HasValue(record) == record.key = "value"

\* a put that never blocks
CanPutAlways(q) == TRUE

\* queue.Queue.put blocks while the queue is full
CanPut(q) == Len(q) < QueueMaxsize

\* a get that takes the newest item
get_newest(q) == [item |-> q[Len(q)], rest |-> SubSeq(q, 1, Len(q) - 1)]

\* queue.Queue.get: the oldest item, and the queue without it
get(q) == [item |-> Head(q), rest |-> Tail(q)]

\* a consumer thread that an error of the callback ends
AfterCallbackHalting(ended) == IF ended = "raised" THEN "exit" ELSE "loop"

\* what the consumer thread does when the callback's process_event ended
AfterCallback(ended) == "loop"

\* the bridge driven without CDCEngine around it
NoEngine ==
    /\ main = "none"
    /\ engine_running = FALSE
    /\ signals = 0
    /\ target_open = TRUE
    /\ NoLoad
    /\ NoSchema
    /\ NoCall

InitBridge ==
    /\ change_queue = <<>>
    /\ running = FALSE
    /\ bridge = "new"
    /\ envelope_key \in {"payload", "value"}
    /\ accepts = 0
    /\ events_processed = 0
    /\ produced = <<>>
    /\ dequeued = <<>>
    /\ handed = <<>>

\* DebeziumEmbeddedEngine.start(): running, the producer, the consumer thread
Start ==
    /\ bridge = "new"
    /\ bridge' = "started"
    /\ running' = TRUE
    /\ pc' = "loop"
    /\ UNCHANGED <<target, schema_cache, stats, config, cur, attempt,
                   current_delay, raised, last, applied, called,
                   change_queue, envelope_key, accepts, events_processed,
                   produced, dequeued, handed>>

\* ChangeConsumer.accept(event) on the producer's thread
Accept(v) ==
    /\ bridge \in {"started", "stopping"}
    /\ accepts < MaxEvents
    /\ accepts' = accepts + 1
    /\ IF v = Tombstone
       THEN UNCHANGED <<change_queue, produced>>
       ELSE /\ CanPut(change_queue)
            /\ change_queue' = Append(change_queue, v)
            /\ produced' = Append(produced, v)
    /\ UNCHANGED <<applierVars, running, bridge, envelope_key,
                   events_processed, dequeued, handed, engineVars, loadVars, schemaVars, callVars>>

\* _process_changes: while self.running
ConsumerLoop ==
    /\ pc = "loop"
    /\ pc' = IF running THEN "get" ELSE "exit"
    /\ UNCHANGED <<target, schema_cache, stats, config, cur, attempt,
                   current_delay, raised, last, applied, called, bridgeVars,
                   engineVars, loadVars, schemaVars, callVars>>

\* _process_changes: get(timeout=1.0), json.loads, change_consumer(record),
\* up to the call of process_event
ConsumerGet ==
    /\ pc = "get"
    /\ IF change_queue = <<>>
       THEN /\ pc' = "loop"
            /\ UNCHANGED <<cur, attempt, current_delay, raised,
                           change_queue, dequeued, handed>>
       ELSE LET g == get(change_queue)
                record == g.item
            IN  /\ change_queue' = g.rest
                /\ dequeued' = Append(dequeued, record)
                /\ IF record.json # "object"
                   THEN /\ pc' = "loop"
                        /\ UNCHANGED <<cur, attempt, current_delay, raised, handed>>
                   ELSE /\ handed' = Append(handed, record)
                        /\ IF ~HasValue(record)
                           THEN /\ pc' = "loop"
                                /\ UNCHANGED <<cur, attempt, current_delay, raised>>
                           ELSE /\ EnterProcessEvent(from_debezium_message(record))
                                /\ pc' = "attempt"
    /\ UNCHANGED <<target, schema_cache, stats, config, last, applied, called,
                   running, bridge, envelope_key, accepts, events_processed,
                   produced, engineVars, loadVars, schemaVars, callVars>>

\* _process_change_record after process_event: count the event, or log the
\* error; then the consumer loop goes on
CallbackReturn ==
    /\ pc \in {"returned", "raised"}
    /\ events_processed' = IF pc = "returned" THEN events_processed + 1
                           ELSE events_processed
    /\ pc' = AfterCallback(pc)
    /\ UNCHANGED <<target, schema_cache, stats, config, cur, attempt,
                   current_delay, raised, last, applied, called,
                   change_queue, running, bridge, envelope_key, accepts,
                   produced, dequeued, handed, engineVars, loadVars, schemaVars, callVars>>

\* DebeziumEmbeddedEngine.stop(): self.running = False
StopFlag ==
    /\ bridge = "started"
    /\ running' = FALSE
    /\ bridge' = "stopping"
    /\ UNCHANGED <<applierVars, change_queue, envelope_key, accepts,
                   events_processed, produced, dequeued, handed>>

\* DebeziumEmbeddedEngine.stop(): engine.close(), executor.shutdown()
StopClose ==
    /\ bridge = "stopping"
    /\ bridge' = "stopped"
    /\ UNCHANGED <<applierVars, change_queue, running, envelope_key, accepts,
                   events_processed, produced, dequeued, handed>>

\* the faults injected in the pipeline
PipelineFaults ==
    { Fault("none", 0, NoExc, d) : d \in DuplicateMessages }
    \cup { Fault("insert_batch", 1, ConnReset, PgDuplicate) }

\* the pipeline starts after the initial load: the tables are there
Init ==
    /\ InitApplierState
    /\ target.tables = Tables
    /\ schema_cache = Tables
    /\ config.conflict_resolution = "source_wins"
    /\ InitBridge
    /\ pc = "unstarted"
    /\ NoEngine

Next ==
    \/ Start /\ UNCHANGED <<engineVars, loadVars, schemaVars, callVars>>
    \/ \E v \in ProducerValues(envelope_key) : Accept(v)
    \/ ConsumerLoop
    \/ ConsumerGet
    \/ ProcessEventAttempt(PipelineFaults)
    \/ CallbackReturn
    \/ StopFlag /\ UNCHANGED <<engineVars, loadVars, schemaVars, callVars>>
    \/ StopClose /\ UNCHANGED <<engineVars, loadVars, schemaVars, callVars>>

Spec == Init /\ [][Next]_vars

\* the consumer thread is scheduled again and again
ConsumerStep ==
    ConsumerLoop \/ ConsumerGet \/ ProcessEventAttempt(PipelineFaults) \/ CallbackReturn

FairSpec == Spec /\ WF_vars(ConsumerStep)

\* a caller that holds the handler calls process_event(e)
Call(e) ==
    /\ pc = "idle"
    /\ applied = <<>>
    /\ EnterProcessEvent(e)
    /\ pc' = "attempt"
    /\ UNCHANGED <<target, schema_cache, stats, config, last, applied, called,
                   bridgeVars, engineVars, loadVars, schemaVars, callVars>>

\* at-least-once delivery: the caller hands the same event over again
Redeliver ==
    /\ pc \in {"returned", "raised"}
    /\ Len(applied) < MaxCalls
    /\ EnterProcessEvent(applied[Len(applied)].event)
    /\ pc' = "attempt"
    /\ UNCHANGED <<target, schema_cache, stats, config, last, applied, called,
                   bridgeVars, engineVars, loadVars, schemaVars, callVars>>

InitApplier ==
    /\ InitApplierState /\ InitBridge /\ envelope_key = "value" /\ pc = "idle"
    /\ NoEngine

NextApplier ==
    \/ \E e \in ChangeEvents : Call(e)
    \/ Redeliver
    \/ ProcessEventAttempt(Faults)

SpecApplier == InitApplier /\ [][NextApplier]_vars

\* the thread inside the retry loop goes on
FairSpecApplier == SpecApplier /\ WF_vars(ProcessEventAttempt(Faults))

(***************************************************************************)
(* CDCEngine (core/engine.py): the main thread in start() and stop(), and  *)
(* the signal handler, around the bridge and its consumer thread.          *)
(***************************************************************************)
\* CDCEngine.start(): source_connector.connect(), target_connector.connect()
EngineConnect ==
    /\ main = "new"
    /\ main' = "load"
    /\ target_open' = TRUE
    /\ UNCHANGED <<applierVars, bridgeVars, engine_running, signals, loadVars, schemaVars, callVars>>

\* CDCEngine.start(): the initial load phase; the target of Init is the one
\* this phase leaves behind
EngineInitialLoad ==
    /\ main = "load"
    /\ main' = "start_cdc"
    /\ UNCHANGED <<applierVars, bridgeVars, engine_running, signals, target_open, loadVars, schemaVars, callVars>>

\* CDCEngine._start_cdc(): the bridge is built and debezium_engine.start()
EngineStartBridge ==
    /\ main = "start_cdc"
    /\ Start
    /\ main' = "set_running"
    /\ UNCHANGED <<engine_running, signals, target_open, loadVars, schemaVars, callVars>>

\* CDCEngine._start_cdc(): self.running = True
EngineSetRunning ==
    /\ main = "set_running"
    /\ engine_running' = TRUE
    /\ main' = "monitor"
    /\ UNCHANGED <<applierVars, bridgeVars, signals, target_open, loadVars, schemaVars, callVars>>

\* CDCEngine._monitor_loop(): while self.running
EngineMonitorTest ==
    /\ main = "monitor"
    /\ main' = IF engine_running THEN "sleep" ELSE "stop"
    /\ UNCHANGED <<applierVars, bridgeVars, engine_running, signals, target_open, loadVars, schemaVars, callVars>>

\* CDCEngine._monitor_loop(): time.sleep(1)
EngineMonitorSleep ==
    /\ main = "sleep"
    /\ main' = "monitor"
    /\ UNCHANGED <<applierVars, bridgeVars, engine_running, signals, target_open, loadVars, schemaVars, callVars>>

\* CDCEngine.stop(): self.running = False
EngineStop ==
    /\ main = "stop"
    /\ engine_running' = FALSE
    /\ main' = "stop_bridge"
    /\ UNCHANGED <<applierVars, bridgeVars, signals, target_open, loadVars, schemaVars, callVars>>

\* CDCEngine.stop(): debezium_engine.stop(), its first statement
EngineStopBridge ==
    /\ main = "stop_bridge"
    /\ StopFlag
    /\ main' = "close_bridge"
    /\ UNCHANGED <<engine_running, signals, target_open, loadVars, schemaVars, callVars>>

\* CDCEngine.stop(): debezium_engine.stop(), the rest of it
EngineCloseBridge ==
    /\ main = "close_bridge"
    /\ StopClose
    /\ main' = "disconnect"
    /\ UNCHANGED <<engine_running, signals, target_open, loadVars, schemaVars, callVars>>

\* CDCEngine.stop(): source_connector.disconnect(), target_connector.disconnect()
EngineDisconnect ==
    /\ main = "disconnect"
    /\ target_open' = FALSE
    /\ main' = "done"
    /\ UNCHANGED <<applierVars, bridgeVars, engine_running, signals, loadVars, schemaVars, callVars>>

\* CDCEngine._signal_handler, for SIGINT or SIGTERM
SignalHandler ==
    /\ main \notin {"none", "new", "done"}
    /\ signals < MaxSignals
    /\ signals' = signals + 1
    /\ engine_running' = FALSE
    /\ UNCHANGED <<applierVars, bridgeVars, main, target_open, loadVars, schemaVars, callVars>>

\* the main thread is scheduled again and again
MainStep ==
    \/ EngineConnect
    \/ EngineInitialLoad
    \/ EngineStartBridge
    \/ EngineSetRunning
    \/ EngineMonitorTest
    \/ EngineMonitorSleep
    \/ EngineStop
    \/ EngineStopBridge
    \/ EngineCloseBridge
    \/ EngineDisconnect

InitEngine ==
    /\ InitApplierState
    /\ target.tables = Tables
    /\ schema_cache = Tables
    /\ config.conflict_resolution = "source_wins"
    /\ InitBridge
    /\ envelope_key = "value"
    /\ pc = "unstarted"
    /\ main = "new"
    /\ engine_running = FALSE
    /\ signals = 0
    /\ target_open = FALSE
    /\ NoLoad
    /\ NoSchema
    /\ NoCall

NextEngine ==
    \/ EngineConnect
    \/ EngineInitialLoad
    \/ EngineStartBridge
    \/ EngineSetRunning
    \/ EngineMonitorTest
    \/ EngineMonitorSleep
    \/ EngineStop
    \/ EngineStopBridge
    \/ EngineCloseBridge
    \/ EngineDisconnect
    \/ SignalHandler
    \/ \E v \in ProducerValues(envelope_key) : Accept(v)
    \/ ConsumerLoop
    \/ ConsumerGet
    \/ ProcessEventAttempt(PipelineFaults)
    \/ CallbackReturn

SpecEngine == InitEngine /\ [][NextEngine]_vars

FairSpecEngine == SpecEngine /\ WF_vars(MainStep) /\ WF_vars(ConsumerStep)

(***************************************************************************)
(* The connectors' native connections (connectors/mysql.py, postgres.py)   *)
(* and the initial load (handlers/initial_load.py).                        *)
(***************************************************************************)
\* a connect() that opens nothing and hands out the connector's own connection
connect_primary(c, side) ==
    [c EXCEPT !.returned = c[side],
              !.handles = @ \cup {[of |-> side, connection |-> c[side]]}]

\* connect(): a new native connection in a new connector instance; the
\* connector called keeps it as its own when it had none
connect(c, side) ==
    LET connection == c.opened + 1
    IN  [c EXCEPT !.opened = connection,
                  !.open = @ \cup {connection},
                  ![side] = IF @ = 0 THEN connection ELSE @,
                  !.returned = connection,
                  !.handles = @ \cup {[of |-> side, connection |-> connection]}]

\* a disconnect() that leaves the connection open
disconnect_never(c, connection) == c

\* disconnect() of a connector instance: self.connection.close()
disconnect(c, connection) == [c EXCEPT !.open = @ \ {connection}]

\* the rows of a source table with n rows
RowId(i) == <<"1", "2", "3", "4", "5">>[i]
SourceRows(n) == [i \in 1..n |-> Img(RowId(i), "a")]

\* get_row_count(table)
get_row_count(db, t) == Len(db.rows[t])

\* cursor.fetchmany that hands out one row whatever the size asked for
fetchmany_one(rows, fetched, batch_size) ==
    SubSeq(rows, fetched + 1, IF fetched < Len(rows) THEN fetched + 1 ELSE fetched)

\* cursor.fetchmany(batch_size) of fetch_all_rows, after fetched rows
fetchmany(rows, fetched, batch_size) ==
    SubSeq(rows, fetched + 1,
           IF fetched + batch_size < Len(rows) THEN fetched + batch_size
           ELSE Len(rows))

\* the error an INSERT of the rows of a batch ends with
insert_rows_error(s, f, t, batch) ==
    IF Raises(s, f, "insert_batch") THEN f.msg
    ELSE IF t \notin s.tables THEN NoSuchTable
    ELSE IF \E i \in 1..Len(batch) : \E c \in s.pk[t] : batch[i][c] = ABSENT
         THEN NotNull
    ELSE IF s.pk[t] # {} /\
            \E i \in 1..Len(batch) :
                \/ \E j \in 1..Len(s.rows[t]) :
                       \A c \in s.pk[t] : s.rows[t][j][c] = batch[i][c]
                \/ \E j \in 1..(i - 1) :
                       \A c \in s.pk[t] : batch[j][c] = batch[i][c]
         THEN f.dup
    ELSE NoExc

\* insert_batch(table, batch): executemany, no commit
insert_rows(s, f, t, batch) ==
    Then(Log(s, f, "insert_batch", t, EmptyImg, batch[1],
             insert_rows_error(s, f, t, batch)),
         LAMBDA s1 : [s1 EXCEPT !.rows[t] =
                         @ \o [i \in 1..Len(batch) |-> ToRow(batch[i])]])

\* rollback_transaction()
Rollback(s) == [s EXCEPT !.rows = s.committed]

\* connection.close() of disconnect(): the server drops what was not committed
close(s) == [s EXCEPT !.rows = s.committed]

\* target_conn.begin_transaction()
begin_transaction(s, f, t) ==
    Log(s, f, "begin_transaction", t, EmptyImg, EmptyImg,
        IF Raises(s, f, "begin_transaction") THEN f.msg ELSE NoExc)

\* target_conn.commit_transaction()
commit_transaction(s, f, t) ==
    Then(Log(s, f, "commit_transaction", t, EmptyImg, EmptyImg,
             IF Raises(s, f, "commit_transaction") THEN f.msg ELSE NoExc),
         LAMBDA s1 : Commit(s1))

\* target_conn.rollback_transaction()
rollback_transaction(s, f, t) ==
    Then(Log(s, f, "rollback_transaction", t, EmptyImg, EmptyImg,
             IF Raises(s, f, "rollback_transaction") THEN f.msg ELSE NoExc),
         LAMBDA s1 : Rollback(s1))

\* a batch whose except clause raises without rollback_transaction()
load_batch_without_rollback(s, f, t, batch) ==
    Then(begin_transaction(s, f, t), LAMBDA s1 :
    Then(insert_rows(s1, f, t, batch), LAMBDA s2 :
         commit_transaction(s2, f, t)))

\* _load_table, the body of the batch loop: begin_transaction, insert_batch,
\* commit_transaction; except: rollback_transaction, raise
load_batch(s, f, t, batch) ==
    Bind(Then(begin_transaction(s, f, t), LAMBDA s1 :
         Then(insert_rows(s1, f, t, batch), LAMBDA s2 :
              commit_transaction(s2, f, t))),
         LAMBDA r :
             IF r.exc = NoExc THEN r
             ELSE Bind(rollback_transaction(r, f, t), LAMBDA rb :
                       IF rb.exc # NoExc THEN rb ELSE [rb EXCEPT !.exc = r.exc]))

\* _load_table, one turn of the batch loop: the next batch of
\* fetch_all_rows, then the body
next_batch(s, f, t, rows, fetched, batch_size) ==
    Then(Log(s, f, "fetchmany", t, EmptyImg, EmptyImg,
             IF f.call = "fetchmany" /\ Raises(s, f, "fetchmany")
             THEN f.msg ELSE NoExc),
         LAMBDA s1 : load_batch(s1, f, t, fetchmany(rows, fetched, batch_size)))

\* the calls of a world, as the history keeps them
Calls(s) == [i \in 1..Len(s.calls) |->
                [op |-> s.calls[i].op, raised |-> s.calls[i].raised]]

\* _filter_tables with the two filters in the other order of precedence
filter_tables_include_wins(all_tables, cfg) ==
    SelectSeq(all_tables,
              LAMBDA t : \/ t \in cfg.include_tables
                         \/ cfg.include_tables = {} /\ t \notin cfg.exclude_tables)

\* InitialLoadHandler._filter_tables
filter_tables(all_tables, cfg) ==
    LET included == IF cfg.include_tables # {}
                    THEN SelectSeq(all_tables, LAMBDA t : t \in cfg.include_tables)
                    ELSE all_tables
    IN  IF cfg.exclude_tables # {}
        THEN SelectSeq(included, LAMBDA t : t \notin cfg.exclude_tables)
        ELSE included

\* the tables of a list
TableSet(tables) == {tables[i] : i \in 1..Len(tables)}

\* is_initial_load_needed that does not look at the source's row count
is_initial_load_needed_any_empty(cfg, src, tg) ==
    IF ~cfg.enabled THEN FALSE
    ELSE IF TableSet(src.tables) \ tg.tables # {} THEN TRUE
    ELSE \E t \in TableSet(src.tables) : get_row_count(tg, t) = 0

\* InitialLoadHandler.is_initial_load_needed
is_initial_load_needed(cfg, src, tg) ==
    IF ~cfg.enabled THEN FALSE
    ELSE IF TableSet(src.tables) \ tg.tables # {} THEN TRUE
    ELSE \E t \in TableSet(src.tables) :
            /\ t \in tg.tables
            /\ get_row_count(tg, t) = 0
            /\ get_row_count(src, t) > 0

RECURSIVE sync_schemas_stopping(_, _, _, _)
\* a schema pass that ends at the first table whose sync_table_schema fails
sync_schemas_stopping(s, f, tables, failed) ==
    IF tables = <<>> THEN [world |-> s, failed |-> failed]
    ELSE Bind(sync_table_schema(s, f, Head(tables)), LAMBDA s1 :
            IF s1.exc # NoExc
            THEN [world |-> Caught(s1), failed |-> failed \cup {Head(tables)}]
            ELSE sync_schemas_stopping(s1, f, Tail(tables), failed))

RECURSIVE sync_schemas(_, _, _, _)
\* perform_initial_load: for table_name in tables_to_sync:
\*     try: sync_table_schema(table_name) except: failed_tables.add(table_name)
sync_schemas(s, f, tables, failed) ==
    IF tables = <<>> THEN [world |-> s, failed |-> failed]
    ELSE Bind(sync_table_schema(s, f, Head(tables)), LAMBDA s1 :
            sync_schemas(Caught(s1), f, Tail(tables),
                         IF s1.exc # NoExc THEN failed \cup {Head(tables)}
                         ELSE failed))

\* the turns of the batch loop the load has made
BatchesDone == load.batches["t"] + load.batches["n"]

\* the calls of a turn of the batch loop
BatchCalls ==
    {"fetchmany", "begin_transaction", "insert_batch", "commit_transaction",
     "lost"}

\* the environment's fault, for the next turn of the batch loop; a target
\* connection that is lost is closed for every call of the turn
BatchFault ==
    IF load_fault.call \in BatchCalls /\ load_fault.nth = BatchesDone + 1
    THEN Fault(IF load_fault.call = "lost" THEN "closed" ELSE load_fault.call,
               1, load_fault.msg, load_fault.dup)
    ELSE Fault("none", 0, NoExc, load_fault.dup)

\* the environment's fault, for the next get_row_count of the load
CountFault ==
    IF /\ load_fault.call = "get_row_count"
       /\ load_fault.nth = Len(load.loaders) + 1
    THEN Fault("get_row_count", 1, load_fault.msg, load_fault.dup)
    ELSE Fault("none", 0, NoExc, load_fault.dup)

\* the threads that run _load_table: the caller, or the pool's workers
Threads ==
    IF load_config.parallel_tables > 1 THEN 1..load_config.parallel_tables
    ELSE {1}

\* the world goes back to the state
WorldBack(s) ==
    /\ target' = [tables |-> s.tables, pk |-> s.pk,
                  rows |-> s.rows, committed |-> s.committed]
    /\ schema_cache' = s.schema_cache

\* CDCEngine.start(): source_connector.connect(), target_connector.connect()
LoadConnect ==
    /\ load.pc = "new"
    /\ conn' = connect(connect(conn, "source"), "target")
    /\ load' = [load EXCEPT !.pc = "connected", !.target_rows = target.rows]
    /\ UNCHANGED <<applierVars, bridgeVars, engineVars, schemaVars, callVars,
                   source, load_config,
                   load_fault, workers>>

\* CDCEngine.start(): if is_initial_load_needed(); its get_all_tables()
\* raises on a connector whose own connection is closed
LoadCheck ==
    /\ load.pc = "connected"
    /\ LET needed == is_initial_load_needed(load_config, source, target)
       IN  load' = IF /\ load_config.enabled
                      /\ \E side \in {"source", "target"} :
                            conn[side] # 0 /\ conn[side] \notin conn.open
                   THEN [load EXCEPT !.pc = "raised"]
                   ELSE [load EXCEPT !.needed = needed,
                                     !.pc = IF needed THEN "begin" ELSE "skipped"]
    /\ UNCHANGED <<applierVars, bridgeVars, engineVars, schemaVars, callVars,
                   source, load_config,
                   load_fault, conn, workers>>

\* perform_initial_load: the tables, their schemas, then the loaders
LoadBegin ==
    /\ load.pc = "begin"
    /\ LET tables == filter_tables(source.tables, load_config)
       IN  IF tables = <<>>
           THEN /\ load' = [load EXCEPT !.pc = "done"]
                /\ UNCHANGED <<target, schema_cache>>
           ELSE \E r \in {sync_schemas(World, load_fault, tables,
                                        load.failed_tables)} :
                   /\ WorldBack(r.world)
                   /\ load' = [load EXCEPT
                         !.schema_log =
                             [i \in 1..Len(r.world.calls) |->
                                 [op |-> r.world.calls[i].op,
                                  table |-> r.world.calls[i].table,
                                  raised |-> r.world.calls[i].raised]],
                         !.failed_tables = r.failed,
                         !.failures = Cardinality(r.failed \ load.failed_tables),
                         !.tables_to_sync =
                             SelectSeq(tables, LAMBDA t : t \notin r.failed),
                         !.pending =
                             SelectSeq(tables, LAMBDA t : t \notin r.failed),
                         !.pc = "loading"]
    /\ UNCHANGED <<stats, config, pc, cur, attempt, current_delay, raised, last,
                   applied, called, bridgeVars, engineVars, schemaVars, callVars,
                   source, load_config,
                   load_fault, conn, workers>>

\* _load_table: get_row_count, which can raise (failed_tables.add, raise);
\* an empty table is completed; else target_conn = self.target.connect()
LoadTableStart(w) ==
    /\ load.pc = "loading"
    /\ w \in Threads
    /\ workers[w] = Idle
    /\ load.pending # <<>>
    /\ LET t == Head(load.pending)
       IN  IF Raises(World, CountFault, "get_row_count")
           THEN /\ load' = [load EXCEPT
                       !.pending = Tail(@),
                       !.loaders = Append(@, [table |-> t, connection |-> 0]),
                       !.failures = @ + 1,
                       !.failed_tables = @ \cup {t},
                       !.pc = IF load_config.parallel_tables > 1
                              THEN "loading" ELSE "aborted"]
                /\ UNCHANGED <<conn, workers>>
           ELSE IF get_row_count(source, t) = 0
           THEN /\ load' = [load EXCEPT
                       !.pending = Tail(@),
                       !.loaders = Append(@, [table |-> t, connection |-> 0]),
                       !.completed_tables = @ \cup {t}]
                /\ UNCHANGED <<conn, workers>>
           ELSE /\ conn' = connect(conn, "target")
                /\ load' = [load EXCEPT
                       !.pending = Tail(@),
                       !.loaders = Append(@, [table |-> t,
                                              connection |-> conn'.returned])]
                /\ workers' = [workers EXCEPT ![w] =
                       [table |-> t, connection |-> conn'.returned,
                        cursor |-> 0, fetched |-> 0]]
    /\ UNCHANGED <<applierVars, bridgeVars, engineVars, schemaVars, callVars,
                   source, load_config,
                   load_fault>>

\* _load_table: the next batch of fetch_all_rows on the source connector's
\* connection; begin_transaction, insert_batch, commit_transaction; when one
\* of them raises rollback_transaction, and when any call raised
\* failed_tables.add, target_conn.disconnect() and raise
LoadTableBatch(w) ==
    /\ load.pc = "loading"
    /\ workers[w].table # "-"
    /\ workers[w].fetched < get_row_count(source, workers[w].table)
    /\ LET t == workers[w].table
           batch == fetchmany(source.rows[t], workers[w].fetched,
                              load_config.batch_size)
       IN  \E s \in {next_batch(World, BatchFault, t, source.rows[t],
                                workers[w].fetched, load_config.batch_size)} :
              IF s.exc = NoExc
              THEN /\ WorldBack(s)
                   /\ load' = [load EXCEPT !.batches[t] = @ + 1,
                                           !.inserted[t] = @ \o batch,
                                           !.log[t] = @ \o Calls(s)]
                   /\ workers' = [workers EXCEPT
                          ![w].cursor = conn.source,
                          ![w].fetched = @ + Len(batch)]
                   /\ UNCHANGED conn
              ELSE /\ WorldBack(close(s))
                   /\ load' = [load EXCEPT
                          !.batches[t] = @ + 1,
                          !.log[t] = @ \o Calls(s),
                          !.failures = @ + 1,
                          !.failed_tables = @ \cup {t},
                          !.pc = IF load_config.parallel_tables > 1
                                 THEN "loading" ELSE "aborted"]
                   /\ workers' = [workers EXCEPT ![w] = Idle]
                   /\ conn' = disconnect(conn, workers[w].connection)
    /\ UNCHANGED <<stats, config, pc, cur, attempt, current_delay, raised, last,
                   applied, called, bridgeVars, engineVars, schemaVars, callVars,
                   source, load_config,
                   load_fault>>

\* _load_table: fetch_all_rows is exhausted; completed_tables.add, and
\* target_conn.disconnect() in the finally block
LoadTableEnd(w) ==
    /\ load.pc = "loading"
    /\ workers[w].table # "-"
    /\ workers[w].fetched = get_row_count(source, workers[w].table)
    /\ load' = [load EXCEPT !.completed_tables = @ \cup {workers[w].table}]
    /\ conn' = disconnect(conn, workers[w].connection)
    /\ workers' = [workers EXCEPT ![w] = Idle]
    /\ UNCHANGED <<applierVars, bridgeVars, engineVars, schemaVars, callVars,
                   source, load_config,
                   load_fault>>

\* perform_initial_load: every table was handed out and every loader is back
LoadFinish ==
    /\ load.pc = "loading"
    /\ load.pending = <<>>
    /\ \A w \in 1..MaxWorkers : workers[w] = Idle
    /\ load' = [load EXCEPT !.pc = "done"]
    /\ UNCHANGED <<applierVars, bridgeVars, engineVars, schemaVars, callVars,
                   source, load_config,
                   load_fault, conn, workers>>

\* the faults of a load: none; a create_table, a get_row_count, a fetchmany,
\* a begin_transaction, an insert_batch or a commit_transaction that fails;
\* a target connection that is lost, so that every call on it fails
LoadFaults ==
    { Fault("none", 0, NoExc, PgDuplicate) }
    \cup { Fault("create_table", n, ConnReset, PgDuplicate) : n \in 1..2 }
    \cup { Fault("insert_batch", n, ConnReset, PgDuplicate) : n \in 1..2 }
    \cup { Fault("begin_transaction", n, ConnReset, PgDuplicate) : n \in 1..2 }
    \cup { Fault("commit_transaction", n, ConnReset, PgDuplicate) : n \in 1..2 }
    \cup { Fault("lost", 2, ConnClosed, PgDuplicate),
           Fault("fetchmany", 2, ConnReset, PgDuplicate),
           Fault("get_row_count", 1, ConnReset, PgDuplicate) }

\* the lists of tables the source can answer get_all_tables() with
TableLists == {<<>>, <<"t">>, <<"n">>, <<"t", "n">>, <<"n", "t">>}

InitLoad ==
    /\ InitApplierState
    /\ schema_cache = {}
    /\ config = [apply_deletes |-> TRUE, conflict_resolution |-> "source_wins"]
    /\ InitBridge
    /\ envelope_key = "value"
    /\ pc = "unstarted"
    /\ main = "new"
    /\ engine_running = FALSE
    /\ signals = 0
    /\ target_open = FALSE
    /\ \/ /\ source \in {[tables |-> l, rows |-> [t \in Tables |-> SourceRows(1)]] :
                            l \in TableLists}
          /\ load_config \in [enabled : {TRUE}, batch_size : {1},
                              parallel_tables : 1..MaxWorkers,
                              include_tables : SUBSET Tables,
                              exclude_tables : SUBSET Tables]
          /\ load_fault = Fault("none", 0, NoExc, PgDuplicate)
       \/ /\ source \in {[tables |-> <<"t", "n">>,
                          rows |-> [t \in Tables |-> SourceRows(n[t])]] :
                            n \in [Tables -> 0..MaxRows]}
          /\ load_config \in [enabled : BOOLEAN, batch_size : 1..2,
                              parallel_tables : 1..MaxWorkers,
                              include_tables : {{}},
                              exclude_tables : {{}}]
          /\ load_fault \in LoadFaults
    /\ conn = NoConnections
    /\ load = NewLoad
    /\ workers = [w \in 1..MaxWorkers |-> Idle]
    /\ NoSchema
    /\ NoCall

NextLoad ==
    \/ LoadConnect
    \/ LoadCheck
    \/ LoadBegin
    \/ \E w \in 1..MaxWorkers : LoadTableStart(w)
    \/ \E w \in 1..MaxWorkers : LoadTableBatch(w)
    \/ \E w \in 1..MaxWorkers : LoadTableEnd(w)
    \/ LoadFinish

SpecLoad == InitLoad /\ [][NextLoad]_vars

\* the main thread and the pool's threads are scheduled again and again
FairSpecLoad == SpecLoad /\ WF_vars(NextLoad)

(***************************************************************************)
(* The initial load, run again: by a caller of the handler, by start() on  *)
(* the same engine, by a new process.                                      *)
(***************************************************************************)
\* the environment's fault has happened
FaultSpent == load_fault' = Fault("none", 0, NoExc, load_fault.dup)

\* a caller asks the handler again, the connectors as they are:
\* if handler.is_initial_load_needed(): handler.perform_initial_load()
PerformInitialLoadAgain ==
    /\ load.pc \in {"done", "aborted"}
    /\ load.run < MaxRuns
    /\ load' = [NewLoad EXCEPT !.pc = "connected",
                               !.run = load.run + 1,
                               !.completed_tables = load.completed_tables,
                               !.failed_tables = load.failed_tables,
                               !.target_rows = target.rows]
    /\ FaultSpent
    /\ UNCHANGED <<applierVars, bridgeVars, engineVars, schemaVars, callVars,
                   source, load_config, conn, workers>>

\* CDCEngine.start(), finally: self.stop(), which disconnects the source and
\* the target connector
LoadStop ==
    /\ load.pc \in {"done", "aborted", "skipped", "raised"}
    /\ conn' = disconnect(disconnect(conn, conn.source), conn.target)
    /\ target' = [target EXCEPT !.rows = target.committed]
    /\ load' = [load EXCEPT !.pc = "stopped"]
    /\ UNCHANGED <<schema_cache, stats, config, pc, cur, attempt, current_delay,
                   raised, last, applied, called, bridgeVars, engineVars,
                   schemaVars, callVars, source, load_config, load_fault,
                   workers>>

\* engine.start() once more on the same CDCEngine: its connectors and its
\* handlers are those of __init__
StartAgain ==
    /\ load.pc = "stopped"
    /\ load.run < MaxRuns
    /\ load' = [NewLoad EXCEPT !.run = load.run + 1,
                               !.completed_tables = load.completed_tables,
                               !.failed_tables = load.failed_tables]
    /\ FaultSpent
    /\ UNCHANGED <<applierVars, bridgeVars, engineVars, schemaVars, callVars,
                   source, load_config, conn, workers>>

\* a new process: CDCEngine.__init__ makes new connectors and handlers
RunAgain ==
    /\ load.pc = "stopped"
    /\ load.run < MaxRuns
    /\ load' = [NewLoad EXCEPT !.run = load.run + 1]
    /\ conn' = NoConnections
    /\ schema_cache' = {}
    /\ FaultSpent
    /\ UNCHANGED <<target, stats, config, pc, cur, attempt, current_delay,
                   raised, last, applied, called, bridgeVars, engineVars,
                   schemaVars, callVars, source, load_config, workers>>

NextRuns ==
    \/ NextLoad
    \/ PerformInitialLoadAgain
    \/ LoadStop
    \/ StartAgain
    \/ RunAgain

SpecRuns == InitLoad /\ [][NextRuns]_vars

(***************************************************************************)
(* SchemaHandler (handlers/schema_handler.py) called on its own.           *)
(***************************************************************************)
\* the faults of a call on the SchemaHandler
SchemaFaults ==
    { Fault("none", 0, NoExc, PgDuplicate),
      Fault("table_exists", 1, ConnReset, PgDuplicate),
      Fault("alter_table_add_column", 1, ConnReset, PgDuplicate) }

\* the converted columns a target table can have before a sync: all of the
\* source's, fewer, one more, or one of another type
TargetColumnLists ==
    LET id == convert_schema(<<IdColumn>>, "postgresql", "mysql")[1]
        name == convert_schema(<<NameColumn>>, "postgresql", "mysql")[1]
    IN  { <<id, name>>, <<id>>, <<id, name, StatusColumn>>,
          <<id, [name EXCEPT !.data_type = <<"TEXT">>]>> }

\* the columns of table "t" in the source
SourceColumnLists ==
    { <<IdColumn, NameColumn>>, <<IdColumn, NameColumn, StatusColumn>>,
      <<IdColumn, StatusColumn>> }

\* the call ends in world s: the target, the cache and the history
SchemaCallEnds(fn, t, s) ==
    /\ target' = [tables |-> s.tables, pk |-> s.pk,
                  rows |-> s.rows, committed |-> s.committed]
    /\ schema_cache' = s.schema_cache
    /\ schema' = [schema EXCEPT !.target_columns = s.target_columns]
    /\ schema_calls' = Append(schema_calls,
           [fn |-> fn, table |-> t, calls |-> s.calls, added |-> s.added,
            exc |-> s.exc, columns |-> schema.target_columns,
            existed |-> t \in target.tables,
            cached |-> t \in schema_cache])
    /\ UNCHANGED <<stats, config, pc, cur, attempt, current_delay, raised, last,
                   applied, called, bridgeVars, engineVars, loadVars, callVars>>

\* a caller calls get_or_sync_schema(table_name)
GetOrSyncSchema(t) ==
    /\ Len(schema_calls) < MaxSchemaCalls
    /\ \E f \in SchemaFaults :
          \E s \in {get_or_sync_schema(World, f, t)} :
              SchemaCallEnds("get_or_sync_schema", t, s)

\* a caller calls sync_table_schema(table_name)
SyncTableSchema(t) ==
    /\ Len(schema_calls) < MaxSchemaCalls
    /\ \E f \in SchemaFaults :
          \E s \in {sync_table_schema(World, f, t)} :
              SchemaCallEnds("sync_table_schema", t, s)

\* a caller calls clear_cache()
ClearCache ==
    /\ Len(schema_calls) < MaxSchemaCalls
    /\ schema_calls # <<>>
    /\ schema_cache' = {}
    /\ schema_calls' = Append(schema_calls,
           [fn |-> "clear_cache", table |-> "-", calls |-> <<>>, added |-> <<>>,
            exc |-> NoExc, columns |-> schema.target_columns,
            existed |-> FALSE, cached |-> FALSE])
    /\ UNCHANGED <<target, stats, config, pc, cur, attempt, current_delay,
                   raised, last, applied, called, bridgeVars, engineVars,
                   loadVars, schema, callVars>>

InitSchema ==
    /\ InitApplierState
    /\ schema_cache = {}
    /\ config = [apply_deletes |-> TRUE, conflict_resolution |-> "source_wins"]
    /\ InitBridge
    /\ envelope_key = "value"
    /\ pc = "idle"
    /\ main = "none"
    /\ engine_running = FALSE
    /\ signals = 0
    /\ target_open = TRUE
    /\ NoLoad
    /\ NoCall
    /\ schema \in
         {[auto_detect_changes |-> a,
           source_type |-> "postgresql", target_type |-> "mysql",
           source_columns |-> [t \in Tables |->
               IF t = "t" THEN src ELSE <<IdNoKey, NameColumn>>],
           target_columns |-> [t \in Tables |->
               IF t \notin target.tables THEN <<>>
               ELSE IF t = "t" THEN tgt
               ELSE convert_schema(<<IdNoKey, NameColumn>>, "postgresql", "mysql")]] :
             a \in BOOLEAN, src \in SourceColumnLists, tgt \in TargetColumnLists}
    /\ schema_calls = <<>>

NextSchema ==
    \/ \E t \in Tables : GetOrSyncSchema(t)
    \/ \E t \in Tables : SyncTableSchema(t)
    \/ ClearCache

SpecSchema == InitSchema /\ [][NextSchema]_vars

(***************************************************************************)
(* The functions of models/change_event.py, utils/schema_converter.py and  *)
(* the column definitions of MySQLConnector.create_table, each called once *)
(* on an argument of its domain.                                           *)
(***************************************************************************)
\* payload.get('op'): the four codes, other strings, JSON null, no key 'op'
Ops == {"c", "u", "d", "r", "x", "C", "", "None", ABSENT}

\* the payloads handed to from_debezium_message
Payloads ==
    { Envelope("payload", op, "t", before, after) :
        op \in Ops, before \in {NoneImg, Img("1", "a")},
        after \in {NoneImg, Img("1", "b")} }

\* the columns of a table with the composite key (a, b)
WideColumns == {"a", "b", "c"}
WideImg(a, b, c) ==
    [col \in WideColumns |-> CASE col = "a" -> a [] col = "b" -> b [] OTHER -> c]

\* the before and after images of an event of that table: None, {}, all
\* columns, a dict without the key b, a dict without any key column
WideImgs ==
    { WideImg("None", "None", "None"), WideImg(ABSENT, ABSENT, ABSENT),
      WideImg("x", "y", "z"), WideImg("x2", "y2", "z2"),
      WideImg("x", ABSENT, "z"), WideImg(ABSENT, ABSENT, "z") }

\* the events and key lists handed to get_primary_key_values
KeyCalls ==
    { [fn |-> "get_primary_key_values",
       event |-> ChangeEvent(UPDATE, "order_items", before, after),
       primary_keys |-> pks] :
        before \in WideImgs, after \in WideImgs,
        pks \in {{"a", "b"}, {"a"}, {}} }

\* the type strings handed to _convert_type: a base, with and without
\* parameters, with and without a time zone qualifier
TypeStrings ==
    { <<b>> \o p \o q :
        b \in {"VARCHAR", "varchar", "NUMERIC", "INTEGER", "DATETIME", "INT",
               "DECIMAL", "GEOMETRY"},
        p \in {<<>>} \cup {<<x>> : x \in Parameters},
        q \in {<<>>} }
    \cup
    { <<b>> \o p \o q :
        b \in {"TIMESTAMP", "TIME"},
        p \in {<<>>} \cup {<<x>> : x \in Parameters},
        q \in {<<>>, <<WithoutTimeZone>>, <<WithTimeZone>>} }
    \cup
    { <<"timestamp">> \o p \o q :
        p \in {<<>>, <<"(6)">>},
        q \in {<<>>, <<" without time zone">>, <<" with time zone">>} }

Dialects == {<<"postgresql", "mysql">>, <<"mysql", "postgresql">>}

TypeCalls ==
    { [fn |-> "convert_type", data_type |-> ty,
       source_type |-> d[1], target_type |-> d[2]] :
        ty \in TypeStrings, d \in Dialects }

\* the columns of a source schema handed to convert_schema
SourceColumns ==
    { ColumnDefinition("id", ty, nullable, default, pk) :
        ty \in {<<"integer">>, <<"BIGINT">>, <<"SERIAL">>, <<"VARCHAR", "(255)">>},
        nullable \in BOOLEAN,
        default \in {None, Nextval, NextvalUpper, "0"},
        pk \in BOOLEAN }

SchemaCalls ==
    { [fn |-> "convert_schema", columns |-> <<col>>,
       source_type |-> src, target_type |-> "mysql"] :
        col \in SourceColumns, src \in {"postgresql", "mysql"} }

\* the columns of a schema handed to MySQLConnector.create_table
MySQLColumns ==
    { ColumnDefinition("id", ty, nullable, default, pk) :
        ty \in {<<"INT">>, <<"BIGINT">>, <<"SMALLINT">>, <<"INT", "(11)">>,
                <<"int">>, <<"VARCHAR", "(255)">>, <<"DATETIME">>},
        nullable \in BOOLEAN,
        default \in {None, Nextval, "0"},
        pk \in BOOLEAN }

CreateCalls ==
    { [fn |-> "create_table", columns |-> <<col, NameColumn>>] :
        col \in MySQLColumns }

\* the rows of order_items in the target: two rows with the same a
ItemColumns ==
    <<ColumnDefinition("a", <<"INTEGER">>, FALSE, None, TRUE),
      ColumnDefinition("b", <<"INTEGER">>, FALSE, None, TRUE),
      ColumnDefinition("c", <<"TEXT">>, TRUE, None, FALSE)>>

ItemRows == <<ToRow(WideImg("x", "y", "z0")), ToRow(WideImg("x", "y2", "z0"))>>

\* the world of a CDCHandler whose target holds order_items and whose
\* SchemaHandler has its schema in the cache
ItemsWorld ==
    [tables |-> {"order_items"},
     pk |-> [t \in {"order_items"} |-> primary_keys(t)],
     rows |-> [t \in {"order_items"} |-> ItemRows],
     committed |-> [t \in {"order_items"} |-> ItemRows],
     schema_cache |-> {"order_items"}, stats |-> Zero,
     auto_detect_changes |-> TRUE,
     source_type |-> "postgresql", target_type |-> "mysql",
     source_columns |-> [t \in {"order_items"} |-> ItemColumns],
     target_columns |-> [t \in {"order_items"} |->
                            convert_schema(ItemColumns, "postgresql", "mysql")],
     added |-> <<>>,
     calls |-> <<>>, exc |-> NoExc]

\* the UPDATE events of order_items handed to _handle_update
UpdateCalls ==
    { [fn |-> "handle_update",
       event |-> ChangeEvent(UPDATE, "order_items", WideImg("x", "y", "z0"), after),
       conflict_resolution |-> cr] :
        after \in WideImgs, cr \in {"source_wins", "target_wins"} }

\* the world of a CDCHandler whose target holds table t without the column
\* name, which the source has gained; the schema of t is cached or not
DriftWorld(cached) ==
    [World EXCEPT !.tables = {"t"},
                  !.schema_cache = IF cached THEN {"t"} ELSE {},
                  !.target_columns["t"] =
                      convert_schema(<<IdColumn>>, "postgresql", "mysql")]

\* the events of t handed to process_event, with the column name
DriftCalls ==
    { [fn |-> "process_event", event |-> e, cached |-> cached] :
        e \in { ChangeEvent(CREATE, "t", NoneImg, Img("1", "a")),
                ChangeEvent(READ, "t", NoneImg, Img("1", "a")),
                ChangeEvent(UPDATE, "t", Img("1", "a"), Img("1", "b")) },
        cached \in BOOLEAN }

\* retry.py, wrapper: func(*args) up to max_attempts times, from attempt att
RECURSIVE wrapper(_, _, _, _, _)
wrapper(s, f, e, cfg, att) ==
    Bind(process_event(Caught(s), f, e, cfg), LAMBDA s1 :
         IF with_retry(att, s1.exc) = "retry"
         THEN wrapper(s1, f, e, cfg, att + 1)
         ELSE s1)

Returned(value) == [fn |-> arg.fn, value |-> value]

CallEnds ==
    UNCHANGED <<applierVars, bridgeVars, engineVars, loadVars, schemaVars, arg>>

\* ChangeEvent.from_debezium_message({'payload': payload})
DecodeEnvelope ==
    /\ arg.fn = "from_debezium_message"
    /\ result.fn = "-"
    /\ result' = Returned(from_debezium_message(arg.payload))
    /\ CallEnds

\* event.get_primary_key_values(primary_keys)
GetPrimaryKeyValues ==
    /\ arg.fn = "get_primary_key_values"
    /\ result.fn = "-"
    /\ result' = Returned(get_primary_key_values(arg.event, arg.primary_keys))
    /\ CallEnds

\* converter._convert_type(data_type, TYPE_MAPPINGS[(source, target)])
ConvertType ==
    /\ arg.fn = "convert_type"
    /\ result.fn = "-"
    /\ result' = Returned(convert_type(arg.data_type,
                             TYPE_MAPPINGS(arg.source_type, arg.target_type)))
    /\ CallEnds

\* converter.convert_schema(schema, source_type, target_type)
ConvertSchema ==
    /\ arg.fn = "convert_schema"
    /\ result.fn = "-"
    /\ result' = Returned(convert_schema(arg.columns, arg.source_type,
                                         arg.target_type))
    /\ CallEnds

\* the column definitions of MySQLConnector.create_table(schema)
CreateTableSql ==
    /\ arg.fn = "create_table"
    /\ result.fn = "-"
    /\ result' = Returned(columns_sql(arg.columns))
    /\ CallEnds

\* handler._handle_update(event), no connector call failing on its own
HandleUpdate ==
    /\ arg.fn = "handle_update"
    /\ result.fn = "-"
    /\ \E s \in {handle_update(ItemsWorld, Fault("none", 0, NoExc, PgDuplicate),
                                arg.event,
                                [apply_deletes |-> TRUE,
                                 conflict_resolution |-> arg.conflict_resolution])} :
          result' = Returned([calls |-> s.calls, exc |-> s.exc, stats |-> s.stats,
                              rows |-> s.rows["order_items"]])
    /\ CallEnds

\* handler.process_event(event), under its retry decorator
ProcessEvent ==
    /\ arg.fn = "process_event"
    /\ result.fn = "-"
    /\ \E s \in {wrapper(DriftWorld(arg.cached),
                          Fault("none", 0, NoExc, PgDuplicate), arg.event,
                          config, 1)} :
          result' = Returned([calls |-> s.calls, exc |-> s.exc, stats |-> s.stats,
                              rows |-> s.rows["t"],
                              columns |-> s.target_columns["t"]])
    /\ CallEnds

InitCalls ==
    /\ InitApplierState
    /\ target.tables = {}
    /\ schema_cache = {}
    /\ config = [apply_deletes |-> TRUE, conflict_resolution |-> "source_wins"]
    /\ InitBridge
    /\ envelope_key = "value"
    /\ pc = "idle"
    /\ main = "none"
    /\ engine_running = FALSE
    /\ signals = 0
    /\ target_open = TRUE
    /\ NoLoad
    /\ NoSchema
    /\ arg \in { [fn |-> "from_debezium_message", payload |-> p] : p \in Payloads }
               \cup KeyCalls \cup TypeCalls \cup SchemaCalls \cup CreateCalls
               \cup UpdateCalls \cup DriftCalls
    /\ result = [fn |-> "-"]

NextCalls ==
    \/ DecodeEnvelope
    \/ GetPrimaryKeyValues
    \/ ConvertType
    \/ ConvertSchema
    \/ CreateTableSql
    \/ HandleUpdate
    \/ ProcessEvent

SpecCalls == InitCalls /\ [][NextCalls]_vars

(***************************************************************************)
(* Properties of the handler, checked under SpecApplier.                   *)
(***************************************************************************)
\* the rows of table t that the primary key of image img selects
RowsWithKey(t, img) ==
    {i \in 1..Len(target.rows[t]) :
        \A c \in primary_keys(t) : target.rows[t][i][c] = img[c]}

\* the same CREATE, for a key the target did not hold, on a table with a
\* primary key, has been applied twice and the environment failed no call
SameCreateTwice ==
    /\ Len(applied) = 2
    /\ pc \in {"returned", "raised"}
    /\ applied[1].event = applied[2].event
    /\ is_insert(applied[1].event)
    /\ primary_keys(applied[1].event.table_name) # {}
    /\ get_primary_key_values(applied[1].event,
                              primary_keys(applied[1].event.table_name)) # EmptyImg
    /\ ~applied[1].had_row
    /\ ~applied[1].faulted /\ ~applied[2].faulted

FirstCall(op) ==
    IF \E i \in 1..Len(last.calls) : last.calls[i].op = op
    THEN CHOOSE i \in 1..Len(last.calls) :
             /\ last.calls[i].op = op
             /\ \A j \in 1..(i - 1) : last.calls[j].op # op
    ELSE 0

\* the last attempt applied an UPDATE under source_wins to a target without
\* the row, and update_row raised a missing-row error
UpdateOfMissingRow ==
    /\ is_update(last.event)
    /\ config.conflict_resolution = "source_wins"
    /\ ~last.had_row
    /\ FirstCall("update_row") > 0
    /\ IsMissingRowError(last.calls[FirstCall("update_row")].raised)

InsertFailed ==
    /\ is_insert(last.event) \/ is_snapshot(last.event)
    /\ FirstCall("insert_batch") > 0
    /\ last.calls[FirstCall("insert_batch")].raised # NoExc

\* the calls of the last attempt after its i-th one
CallsAfter(i) == SubSeq(last.calls, i + 1, Len(last.calls))

\* C5: when the insert_batch of _handle_insert fails with a message that
\* contains 'duplicate key' or 'unique constraint' in any letter case, the
\* attempt goes on with the update path for the same after image (the schema
\* lookup, then update_row(table, pk_values, after) under source_wins when
\* the image carries a primary key) and inserts is not incremented; with any other message the
\* error leaves the attempt and no further connector call is made.
C5_InsertFallsBackToUpdate ==
    InsertFailed =>
        LET i == FirstCall("insert_batch")
            m == last.calls[i].raised
            e == last.event
            rest == CallsAfter(i)
            schema_failed ==
                \E j \in 1..Len(rest) :
                    /\ rest[j].op \in {"get_table_schema", "table_exists", "create_table"}
                    /\ rest[j].raised # NoExc
        IN  IF Contains(lower(m), "duplicate key") \/ Contains(lower(m), "unique constraint")
            THEN /\ stats["inserts"] = last.stats["inserts"]
                 /\ (/\ config.conflict_resolution = "source_wins"
                     /\ ~schema_failed
                     /\ get_primary_key_values(e, primary_keys(e.table_name)) # EmptyImg) =>
                        \E j \in 1..Len(rest) :
                            /\ rest[j].op = "update_row"
                            /\ rest[j].table = e.table_name
                            /\ rest[j].keys = get_primary_key_values(e, primary_keys(e.table_name))
                            /\ rest[j].values = e.after
                            /\ \A k \in 1..(j - 1) :
                                   rest[k].op \in {"get_table_schema", "table_exists", "create_table"}
                 /\ config.conflict_resolution = "target_wins" =>
                        \A j \in 1..Len(rest) : rest[j].op \notin {"update_row", "insert_batch"}
            ELSE /\ rest = <<>>
                 /\ last.exc = m
                 /\ pc # "returned"
                 /\ stats["inserts"] = last.stats["inserts"]

\* an upper-case 'UNIQUE constraint failed' took the update path, and an
\* unrelated error left the attempt
C5_Witness ==
    /\ InsertFailed
    /\ last.calls[FirstCall("insert_batch")].raised = UniqueFailed
    /\ last.calls[Len(last.calls)].op = "update_row"
    /\ stats["updates"] = last.stats["updates"] + 1

\* C6: process_event is attempted at most max_attempts (3) times per event;
\* it returns with the first attempt that raises nothing, a further attempt
\* follows only an attempt that raised, after the third failure the
\* exception of that attempt is raised to the caller, and the loop ends.
C6_BoundedRetry ==
    /\ [](/\ attempt <= max_attempts
          /\ pc = "returned" => last.exc = NoExc /\ last.attempt = attempt
          /\ pc = "raised" =>
                 /\ attempt = max_attempts
                 /\ last.attempt = max_attempts
                 /\ raised = last.exc /\ raised # NoExc
          /\ (pc = "attempt" /\ attempt > 1) =>
                 last.exc # NoExc /\ last.attempt = attempt - 1)
    /\ (pc = "attempt") ~> (pc \in {"returned", "raised"})

C6_Witness ==
    pc = "raised" /\ attempt = max_attempts /\ raised = ConnReset

\* C7: an attempt of process_event that ends in an exception has incremented
\* errors by exactly 1 and the exception reaches the retry wrapper; an
\* attempt that ends without one leaves errors as it was.
C7_ErrorsCounted ==
    last.attempt > 0 =>
        IF last.exc # NoExc
        THEN /\ stats["errors"] = last.stats["errors"] + 1
             /\ pc # "returned"
        ELSE /\ stats["errors"] = last.stats["errors"]
             /\ pc \in {"returned", "attempt"}

C7_Witness ==
    /\ last.exc # NoExc
    /\ stats["errors"] = 3
    /\ pc = "raised"

(***************************************************************************)
(* Properties of the pipeline, checked under Spec and FairSpec.            *)
(***************************************************************************)
\* an envelope of the documented shape: {"payload": {op: "c", after: ...}}
Documented(record) ==
    /\ record.json = "object"
    /\ record.key = "payload"
    /\ record.op = CREATE
    /\ Truthy(record.after)

\* the callback has returned for every record handed to it
CallbackDone == pc \in {"loop", "get", "exit"}

\* C2: once the callback has returned for a documented CREATE envelope that
\* the consumer handed to it, a ChangeEvent was built from it and applied:
\* insert_batch has been called and a call of process_event for the event
\* has finished.
C2_DocumentedEnvelopeApplied ==
    (CallbackDone /\ \E i \in 1..Len(handed) : Documented(handed[i])) =>
        /\ "insert_batch" \in called
        /\ \E j \in 1..Len(applied) :
               /\ applied[j].event.operation = CREATE
               /\ applied[j].event.after = Img("1", "a")

\* C3: with apply_deletes = false no delete_row call has been made on the
\* target and the deletes counter is 0, whatever events were processed.
C3_DeleteToggle ==
    ~config.apply_deletes => "delete_row" \notin called /\ stats["deletes"] = 0

\* a DELETE for a row the target held was processed with the toggle off
C3_Witness ==
    /\ ~config.apply_deletes
    /\ \E i \in 1..Len(applied) :
           /\ is_delete(applied[i].event)
           /\ Truthy(applied[i].event.before)
           /\ applied[i].had_row
           /\ ~applied[i].raised

IsObject(record) == record.json = "object"

\* the number of process_event calls the callback has made
Entered == Len(applied) + (IF pc = "attempt" THEN 1 ELSE 0)

\* C8: when process_event has failed on all attempts the callback returns
\* and the consumer thread goes back to its loop, the thread ends only when
\* running is false, and every well-formed envelope the producer has
\* enqueued is handed to the callback (and, in the shape the callback reads,
\* to process_event) unless the bridge is stopped.
C8_FailureDoesNotHalt ==
    /\ [][pc = "raised" => pc' \in {"raised", "loop"}]_vars
    /\ [][pc' = "exit" => pc = "exit" \/ ~running]_vars
    /\ [](envelope_key = "value" => Entered = Len(handed))
    /\ \A n \in 1..MaxEvents :
          (pc = "raised" /\ Len(SelectSeq(produced, IsObject)) >= n)
              ~> (~running \/ Len(handed) >= n)

\* an event was applied after an earlier one had failed on all attempts
C8_Witness ==
    \E i \in 1..Len(applied) :
        /\ applied[i].raised
        /\ i < Len(applied)
        /\ ~applied[Len(applied)].raised

\* C9: the consumer takes the envelopes in the order the producer enqueued
\* them, the events process_event is called with are the decoded well-formed
\* envelopes in that order, and a call of process_event (all its attempts)
\* has finished before the next envelope is taken.
C9_ProducerOrder ==
    /\ Len(dequeued) <= Len(produced)
    /\ \A i \in 1..Len(dequeued) : dequeued[i] = produced[i]
    /\ handed = SelectSeq(dequeued, IsObject)
    /\ envelope_key = "value" =>
          /\ Entered = Len(handed)
          /\ \A i \in 1..Len(applied) :
                 applied[i].event = from_debezium_message(handed[i])
          /\ pc = "attempt" =>
                 cur = from_debezium_message(handed[Len(handed)])

\* two different events were applied, the queue having held both at once
C9_Witness ==
    /\ Len(applied) = 2
    /\ applied[1].event # applied[2].event
    /\ Len(produced) = 3
    /\ Len(change_queue) = 1

\* C10: the queue never holds more than its capacity, the producer cannot
\* enqueue while it is full, and every envelope accept() has enqueued is
\* either in the queue or was taken by the consumer, in order.
C10_BoundedQueue ==
    /\ Len(change_queue) <= QueueMaxsize
    /\ Len(change_queue) = QueueMaxsize =>
          ~ENABLED (\E v \in ProducerValues(envelope_key) \ {Tombstone} : Accept(v))
    /\ produced = dequeued \o change_queue

\* the queue is full while the producer has more to deliver
C10_Witness ==
    /\ Len(change_queue) = QueueMaxsize
    /\ accepts < MaxEvents
    /\ bridge = "started"

\* C11: when stop() of the bridge has returned, the consumer thread has
\* ended, so the change handler is not invoked for any envelope afterwards.
C11_StopJoinsConsumer ==
    bridge = "stopped" => pc = "exit"

(***************************************************************************)
(* Properties of the engine, checked under SpecEngine and FairSpecEngine.  *)
(***************************************************************************)
\* C12: in no interleaving of the main thread and the consumer thread does
\* process_event issue an operation on the target connector after
\* CDCEngine.stop() has disconnected it: no call of an attempt was made on
\* the closed connection.
C12_NoOperationAfterDisconnect ==
    \A i \in 1..Len(last.calls) : last.calls[i].raised # ConnClosed

\* C13: a signal delivered at any moment after start() has begun leads to
\* the engine leaving its monitor loop, stopping the bridge and
\* disconnecting both connectors.
C13_SignalLeadsToShutdown ==
    (signals > 0) ~> (main = "done" /\ bridge = "stopped" /\ ~target_open)

(***************************************************************************)
(* Properties of the initial load, checked under SpecLoad and FairSpecLoad.*)
(***************************************************************************)
\* the tables the configuration selects, as the specification words it
SelectedTables ==
    {t \in TableSet(source.tables) :
        /\ load_config.include_tables # {} => t \in load_config.include_tables
        /\ t \notin load_config.exclude_tables}

\* the load is over, by return or by exception
LoadOver == load.pc \in {"done", "aborted"}

\* C14: a per-table load failure is isolated, in sequential mode as in
\* parallel mode: when the load is over every selected table is in
\* failed_tables or was loaded to completion.
C14_FailureIsolated ==
    LoadOver /\ load.needed =>
        \A t \in SelectedTables :
            t \in load.failed_tables \/ t \in load.completed_tables

\* a thread is in _load_table with a target connection of its own
Loading(w) == workers[w].table # "-"

\* C15: concurrent _load_table invocations hold distinct native target
\* connections, and each of them is open whichever others were disconnected.
C15_DistinctTargetConnections ==
    \A w1 \in 1..MaxWorkers : Loading(w1) =>
        /\ workers[w1].connection \in conn.open
        /\ \A w2 \in 1..MaxWorkers \ {w1} :
               Loading(w2) => workers[w2].connection # workers[w1].connection

\* one loader has disconnected its connection while another still loads
C15_Witness ==
    /\ load_config.parallel_tables > 1
    /\ \E w \in 1..MaxWorkers : Loading(w) /\ workers[w].fetched > 0
    /\ \E h \in conn.handles :
           /\ h.of = "target"
           /\ h.connection # conn.target
           /\ h.connection \notin conn.open

\* C16: during a parallel load no native connection, of the source or of
\* the target, is in use by two workers at the same time.
C16_OneConnectionPerWorker ==
    \A w1 \in 1..MaxWorkers : \A w2 \in 1..MaxWorkers \ {w1} :
        Loading(w1) /\ Loading(w2) =>
            /\ workers[w1].connection # workers[w2].connection
            /\ workers[w1].cursor # 0 => workers[w1].cursor # workers[w2].cursor

\* C17: every connect(), the first one included, returns an instance bound
\* to a native connection that the connector called does not hold as its own.
C17_ConnectReturnsFreshConnection ==
    \A h \in conn.handles : h.connection # conn[h.of]

\* ceil(n / d)
Ceil(n, d) == (n + d - 1) \div d

\* C18: with parallel_tables = 2 and no failing operation the load
\* terminates; completed_tables is then the set of selected tables,
\* failed_tables is empty, and a table with n > 0 rows got
\* ceil(n / batch_size) insert_batch calls that inserted each row once.
C18_ParallelLoadCompletes ==
    /\ [](load.pc = "done" /\ load.needed /\ load_config.parallel_tables = 2
            /\ load.failures = 0 =>
              /\ load.completed_tables = SelectedTables
              /\ load.failed_tables = {}
              /\ \A t \in SelectedTables :
                    get_row_count(source, t) > 0 =>
                      /\ load.batches[t] =
                            Ceil(get_row_count(source, t), load_config.batch_size)
                      /\ load.inserted[t] = source.rows[t])
    /\ (load.pc = "begin" /\ load_config.parallel_tables = 2)
          ~> (load.pc = "done" \/ load.failures > 0)

\* a parallel load without failure is over: two tables, one with three rows
\* loaded in batches of two
C18_Witness ==
    /\ load.pc = "done"
    /\ load_config.parallel_tables = 2
    /\ load_config.batch_size = 2
    /\ load.failures = 0
    /\ load.completed_tables = Tables
    /\ get_row_count(source, "t") = 3
    /\ load.batches["t"] = 2

\* C19: is_initial_load_needed() is true exactly when the load is enabled
\* and some source table is absent from the target, or is in the target
\* with zero rows while the source has at least one row of it.
C19_LoadNeeded ==
    load.pc \in {"begin", "skipped"} =>
        (load.needed <=>
            /\ load_config.enabled
            /\ \E t \in TableSet(source.tables) :
                  \/ t \notin target.tables
                  \/ /\ Len(target.rows[t]) = 0
                     /\ Len(source.rows[t]) > 0)

\* the check answered no though a target table is empty: the source's is too
C19_Witness ==
    /\ load.pc = "skipped"
    /\ load_config.enabled
    /\ \E t \in TableSet(source.tables) : Len(target.rows[t]) = 0

\* where a table stands in a list
Position(tables, t) == CHOOSE i \in 1..Len(tables) : tables[i] = t

\* C20: the tables selected are the source tables, restricted to
\* include_tables when it is non-empty, minus exclude_tables; their
\* relative order is that of the source.
C20_SelectedTablesInOrder ==
    load.pc = "loading" /\ load.failed_tables = {} =>
        /\ TableSet(load.tables_to_sync) = SelectedTables
        /\ \A i, j \in 1..Len(load.tables_to_sync) :
              i < j => Position(source.tables, load.tables_to_sync[i])
                         < Position(source.tables, load.tables_to_sync[j])

\* a table in both lists was dropped and another one selected
C20_Witness ==
    /\ load.pc = "loading"
    /\ load_config.include_tables \cap load_config.exclude_tables # {}
    /\ load.tables_to_sync # <<>>

(***************************************************************************)
(* Properties of the SchemaHandler, checked under SpecSchema.              *)
(***************************************************************************)
\* how often a call on the SchemaHandler invoked the source's get_table_schema
SourceFetches(call) ==
    Cardinality({k \in 1..Len(call.calls) : call.calls[k].op = "get_table_schema"})

\* calls i < j are get_or_sync_schema for one table, the first one returned
\* and no clear_cache came between them
CachedPair(i, j) ==
    /\ i < j
    /\ schema_calls[i].fn = "get_or_sync_schema"
    /\ schema_calls[j].fn = "get_or_sync_schema"
    /\ schema_calls[i].table = schema_calls[j].table
    /\ schema_calls[i].exc = NoExc
    /\ \A k \in i..j : schema_calls[k].fn # "clear_cache"

\* C21: once get_or_sync_schema has returned for a table, a later
\* get_or_sync_schema for it, with no clear_cache in between, does not
\* invoke the source's get_table_schema.
C21_SchemaCacheHit ==
    \A i, j \in 1..Len(schema_calls) :
        CachedPair(i, j) => SourceFetches(schema_calls[j]) = 0

\* a second get_or_sync_schema came after a sync_table_schema in between
C21_Witness ==
    /\ Len(schema_calls) = 3
    /\ CachedPair(1, 3)
    /\ schema_calls[2].fn = "sync_table_schema"

\* C22: two consecutive get_or_sync_schema calls for one table on a fresh
\* SchemaHandler, neither of them raising, invoke the source's
\* get_table_schema exactly once in total, whether the target had the table
\* or not.
C22_OneFetchForTwoCalls ==
    Len(schema_calls) >= 2 /\ CachedPair(1, 2) /\ schema_calls[2].exc = NoExc =>
        SourceFetches(schema_calls[1]) + SourceFetches(schema_calls[2]) = 1

\* the last call was sync_table_schema for a table the target had, with
\* auto-detection on, and no connector call of it failed
SyncedExisting ==
    /\ schema_calls # <<>>
    /\ LET call == schema_calls[Len(schema_calls)]
       IN  /\ call.fn = "sync_table_schema"
           /\ call.existed
           /\ schema.auto_detect_changes
           /\ \A k \in 1..Len(call.calls) : call.calls[k].raised = NoExc

C24_OpDecoding ==
    result.fn = "from_debezium_message" =>
        LET op == arg.payload.op
        IN  /\ op = "c" => result.value.operation = CREATE
            /\ op = "u" => result.value.operation = UPDATE
            /\ op = "d" => result.value.operation = DELETE
            /\ op = "r" => result.value.operation = READ
            /\ op \notin {"c", "u", "d", "r"} => result.value.operation = READ
            /\ result.value.operation \in OperationType

\* an envelope without op and one with an unknown op have been decoded
C24_Witness ==
    /\ result.fn = "from_debezium_message"
    /\ arg.payload.op \in {ABSENT, "x"}
    /\ result.value.operation = READ

\* the image get_primary_key_values reads: after when it is present (neither
\* None nor empty), before otherwise
KeySource(e) ==
    IF e.after \notin {WideImg("None", "None", "None"),
                       WideImg(ABSENT, ABSENT, ABSENT)}
    THEN e.after ELSE e.before

\* C25: get_primary_key_values(pks) returns exactly the primary-key names
\* with their values of the after image when after is present, of the before
\* image otherwise, and no other column; for keys [a, b] and
\* after = {a: x, b: y, c: z} it returns exactly {a: x, b: y}.
C25_PrimaryKeyValues ==
    result.fn = "get_primary_key_values" =>
        LET data == KeySource(arg.event)
        IN  /\ \A col \in WideColumns :
                  result.value[col] =
                      IF col \in arg.primary_keys /\ data[col] # "None"
                      THEN data[col] ELSE ABSENT
            /\ (arg.primary_keys = {"a", "b"} /\ arg.event.after = WideImg("x", "y", "z")) =>
                  result.value = WideImg("x", "y", ABSENT)

\* the composite key was read from an after image with a non-key column,
\* and from the before image of an event without after image
C25_Witness ==
    /\ result.fn = "get_primary_key_values"
    /\ arg.primary_keys = {"a", "b"}
    /\ \/ /\ arg.event.after = WideImg("x", "y", "z")
          /\ arg.event.before = WideImg("x2", "y2", "z2")
          /\ result.value = WideImg("x", "y", ABSENT)
       \/ /\ arg.event.after = WideImg("None", "None", "None")
          /\ arg.event.before = WideImg("x2", "y2", "z2")
          /\ result.value = WideImg("x2", "y2", ABSENT)

\* the mapped base T' of a type string: the entry of the map for the
\* upper-cased base, the upper-cased base itself when the map has none
MappedBase(call) ==
    LET base == upper(call.data_type[1])
        type_map == TYPE_MAPPINGS(call.source_type, call.target_type)
    IN  IF base \in DOMAIN type_map THEN type_map[base] ELSE <<base>>

\* C26: a parameterized type T(P), with or without a trailing time zone
\* qualifier, converts to T'(P): the mapped base, the parameters unchanged,
\* and nothing after them; TIMESTAMP(6) WITHOUT TIME ZONE converts from
\* Postgres to MySQL as DATETIME(6).
C26_TypeSuffixPreserved ==
    (/\ result.fn = "convert_type"
     /\ Len(arg.data_type) >= 2
     /\ arg.data_type[2] \in Parameters) =>
        result.value = MappedBase(arg) \o <<arg.data_type[2]>>

\* C27: in the column definitions of MySQLConnector.create_table a primary
\* key column of base type INT, BIGINT or SMALLINT is NOT NULL
\* AUTO_INCREMENT and has no DEFAULT clause, whatever its default; a
\* Postgres primary key column with a nextval( default converts for MySQL
\* to a column with default None that is still a primary key.
C27_AutoIncrementExclusive ==
    /\ result.fn = "create_table" =>
          \A i \in 1..Len(arg.columns) :
              LET col == arg.columns[i]
              IN  (/\ col.is_primary_key
                   /\ upper(col.data_type[1]) \in {"INT", "BIGINT", "SMALLINT"}) =>
                      /\ result.value[i] =
                            <<col.name>> \o col.data_type \o <<" NOT NULL AUTO_INCREMENT">>
                      /\ \A k \in 1..Len(result.value[i]) :
                            result.value[i][k] # " DEFAULT"
    /\ (/\ result.fn = "convert_schema"
        /\ arg.source_type = "postgresql"
        /\ arg.target_type = "mysql") =>
          \A i \in 1..Len(arg.columns) :
              (/\ arg.columns[i].is_primary_key
               /\ arg.columns[i].default \in {Nextval, NextvalUpper}) =>
                  /\ result.value[i].default = None
                  /\ result.value[i].is_primary_key

\* a definition was emitted for an integer primary key whose schema holds a
\* default
C27_Witness ==
    /\ result.fn = "create_table"
    /\ arg.columns[1].is_primary_key
    /\ arg.columns[1].data_type = <<"INT", "(11)">>
    /\ arg.columns[1].default = "0"
    /\ result.value[1] = <<"id", "INT", "(11)", " NOT NULL AUTO_INCREMENT">>

(***************************************************************************)
(* Properties of _load_table and of the schema pass, checked under         *)
(* SpecLoad.                                                               *)
(***************************************************************************)
\* the calls _load_table made on the target connection of table t
TargetLog(t) == SelectSeq(load.log[t], LAMBDA c : c.op # "fetchmany")

\* the batches of table t that were committed
CommittedBatches(t) ==
    Cardinality({i \in 1..Len(load.log[t]) :
                    /\ load.log[t][i].op = "commit_transaction"
                    /\ load.log[t][i].raised = NoExc})

\* the first rows of source table t that whole committed batches hold
CommittedRows(t) ==
    LET k == CommittedBatches(t) * load_config.batch_size
        n == IF k < Len(source.rows[t]) THEN k ELSE Len(source.rows[t])
    IN  [i \in 1..n |-> ToRow(source.rows[t][i])]

\* C28: every batch of load_table is a transaction of its own, made of
\* begin_transaction, insert_batch, commit_transaction in this order; when
\* one of them fails rollback_transaction follows, the table fails and no
\* later batch of it is attempted; the target then holds the rows of the
\* batches committed before, whole batches and nothing of the failed one.
C28_BatchTransactions ==
    load.pc # "new" =>
        \A t \in Tables :
            LET log == TargetLog(t)
                n == Len(log)
            IN  /\ \A i \in 1..n :
                      /\ log[i].op = "begin_transaction" =>
                            \/ i = 1
                            \/ /\ log[i - 1].op = "commit_transaction"
                               /\ log[i - 1].raised = NoExc
                      /\ log[i].op = "insert_batch" =>
                            /\ i > 1
                            /\ log[i - 1].op = "begin_transaction"
                            /\ log[i - 1].raised = NoExc
                      /\ log[i].op = "commit_transaction" =>
                            /\ i > 1
                            /\ log[i - 1].op = "insert_batch"
                            /\ log[i - 1].raised = NoExc
                      /\ log[i].op = "rollback_transaction" =>
                            /\ i = n
                            /\ i > 1
                            /\ log[i - 1].op # "rollback_transaction"
                            /\ log[i - 1].raised # NoExc
                      /\ (log[i].op # "rollback_transaction" /\ log[i].raised # NoExc) =>
                            /\ i + 1 = n
                            /\ log[n].op = "rollback_transaction"
                            /\ t \in load.failed_tables
                      /\ (log[i].op \in {"begin_transaction", "insert_batch"}
                          /\ log[i].raised = NoExc) => i < n
                /\ \A i \in 1..Len(load.log[t]) :
                      load.log[t][i].raised # NoExc =>
                          \A j \in (i + 1)..Len(load.log[t]) :
                              load.log[t][j].op = "rollback_transaction"
                /\ target.committed[t] = load.target_rows[t] \o CommittedRows(t)
                /\ target.rows[t] = target.committed[t]

\* a table had a batch committed, and the commit of its next batch failed
C28_Witness ==
    \E t \in Tables :
        LET log == TargetLog(t)
        IN  /\ CommittedBatches(t) = 1
            /\ Len(log) = 7
            /\ log[6].op = "commit_transaction"
            /\ log[6].raised # NoExc
            /\ log[7].op = "rollback_transaction"
            /\ Len(target.committed[t]) = load_config.batch_size

\* _load_table has returned or raised for the table
Left(t) == \A w \in 1..MaxWorkers : workers[w].table # t

\* C29: a target connection that load_table acquired is disconnected when
\* load_table has returned or raised, whether the load succeeded, a batch
\* failed, the rollback failed too or the read of the source failed; a
\* table without rows in the source is completed without a connection.
C29_ConnectionReleased ==
    \A i \in 1..Len(load.loaders) :
        LET l == load.loaders[i]
        IN  /\ (l.connection # 0 /\ Left(l.table)) => l.connection \notin conn.open
            /\ (get_row_count(source, l.table) = 0 /\ l.table \notin load.failed_tables) =>
                  /\ l.connection = 0
                  /\ l.table \in load.completed_tables

\* load_table raised after a rollback that failed too, and its connection is
\* closed
C29_Witness ==
    \E i \in 1..Len(load.loaders) :
        LET l == load.loaders[i]
            log == load.log[l.table]
        IN  /\ l.connection # 0
            /\ Left(l.table)
            /\ l.table \in load.failed_tables
            /\ log # <<>>
            /\ log[Len(log)].op = "rollback_transaction"
            /\ log[Len(log)].raised # NoExc
            /\ l.connection \notin conn.open

\* the list perform_initial_load makes its schema pass over
SelectedList == SelectSeq(source.tables, LAMBDA t : t \in SelectedTables)

\* C30: a table whose sync_table_schema fails in the schema pass of
\* perform_initial_load is in failed_tables, the pass goes on with the
\* tables after it, and load_table is never invoked for it.
C30_SchemaFailureSkipsTable ==
    \A i \in 1..Len(load.schema_log) :
        load.schema_log[i].raised # NoExc =>
            LET t == load.schema_log[i].table
            IN  /\ t \in load.failed_tables
                /\ \A k \in 1..Len(load.loaders) : load.loaders[k].table # t
                /\ \A k \in 1..Len(load.tables_to_sync) : load.tables_to_sync[k] # t
                /\ load.log[t] = <<>>
                /\ \A k \in 1..Len(SelectedList) :
                      Position(SelectedList, t) < k =>
                          \E j \in (i + 1)..Len(load.schema_log) :
                              load.schema_log[j].table = SelectedList[k]

\* the schema of the first table failed, the second table was loaded
C30_Witness ==
    /\ load.pc = "done"
    /\ Len(SelectedList) = 2
    /\ load.failed_tables = {SelectedList[1]}
    /\ load.completed_tables = {SelectedList[2]}
    /\ \E i \in 1..Len(load.schema_log) :
          /\ load.schema_log[i].raised # NoExc
          /\ load.schema_log[i].table = SelectedList[1]

(***************************************************************************)
(* Properties of the applier and of the schemas it works with, checked     *)
(* under SpecApplier.                                                      *)
(***************************************************************************)
\* the create_table calls of the last attempt
Creations ==
    {i \in 1..Len(last.calls) : last.calls[i].op = "create_table"}

\* C31: an attempt of process_event for an event whose table the target
\* lacks creates the table exactly once, with the schema the converter
\* gives for the target dialect, and ends without raising.
C31_TableCreatedOnce ==
    (/\ last.attempt >= 1
     /\ last.event.table_name \notin last.tables
     /\ ~Injected(last.calls)) =>
        /\ Cardinality(Creations) = 1
        /\ last.exc = NoExc
        /\ schema.target_columns[last.event.table_name] =
              convert_schema(schema.source_columns[last.event.table_name],
                             schema.source_type, schema.target_type)

\* C32: _handle_update calls update_row only with a value for every
\* primary-key column of the table; when the after image lacks the value of
\* a primary-key column it calls neither update_row nor insert_batch.
C32_UpdateNeedsWholeKey ==
    result.fn = "handle_update" =>
        LET pks == primary_keys(arg.event.table_name)
            calls == result.value.calls
        IN  /\ \A i \in 1..Len(calls) :
                  calls[i].op = "update_row" =>
                      \A col \in pks : calls[i].keys[col] # ABSENT
            /\ (\E col \in pks : arg.event.after[col] \in {ABSENT, "None"}) =>
                  \A i \in 1..Len(calls) :
                      calls[i].op \notin {"update_row", "insert_batch"}

\* C33: with conflict_resolution = target_wins no update_row call has been
\* made on the target and the updates counter is 0, whatever events were
\* processed, the inserts that met a duplicate key included.
C33_TargetWins ==
    config.conflict_resolution = "target_wins" =>
        "update_row" \notin called /\ stats["updates"] = 0

\* under target_wins an insert of a row the target held has met a duplicate
\* key, gone through _handle_update and returned
C33_Witness ==
    /\ config.conflict_resolution = "target_wins"
    /\ pc = "returned"
    /\ last.had_row
    /\ is_insert(last.event)
    /\ last.exc = NoExc
    /\ \E i \in 1..Len(last.calls) :
           /\ last.calls[i].op = "insert_batch"
           /\ IsDuplicateError(last.calls[i].raised)

\* the delete_row calls of the last attempt that raised
FailedDeletes ==
    {i \in 1..Len(last.calls) :
        last.calls[i].op = "delete_row" /\ last.calls[i].raised # NoExc}

\* C34: an attempt in which delete_row raised ends without an exception;
\* process_event returns on that attempt, without a retry, and the deletes
\* and errors counters are those from before the attempt.
C34_DeleteErrorSwallowed ==
    (last.attempt >= 1 /\ FailedDeletes # {}) =>
        /\ last.exc = NoExc
        /\ pc = "returned" \/ (pc = "attempt" /\ attempt = 1)
        /\ pc = "returned" =>
              /\ applied[Len(applied)].attempts = last.attempt
              /\ stats["deletes"] = last.stats["deletes"]
              /\ stats["errors"] = last.stats["errors"]

\* delete_row raised for a DELETE of a row the target holds, on the first
\* attempt, and process_event has returned
C34_Witness ==
    /\ FailedDeletes # {}
    /\ is_delete(last.event)
    /\ last.attempt = 1
    /\ last.had_row
    /\ pc = "returned"
    /\ HasRow(target, last.event)

\* C35: when process_event has returned for a CREATE, READ, UPDATE or DELETE
\* event, the rows the target connection has committed are the rows it
\* holds: the change of the event, a row written by insert_batch included,
\* would survive a disconnect.
C35_EventCommitted ==
    (/\ pc = "returned"
     /\ last.attempt >= 1
     /\ last.event.operation \in {CREATE, READ, UPDATE, DELETE}) =>
        target.committed = target.rows

\* the operations of the connector calls process_event made
DriftOps == {result.value.calls[i].op : i \in 1..Len(result.value.calls)}

\* C36: process_event for an event of an existing target table that lacks
\* the column name the source has gained adds the column with
\* alter_table_add_column and applies the event: it ends without an
\* exception and the target holds the row of the event, with the schema of
\* the table in the cache or not.
C36_AdditiveDriftRecovered ==
    result.fn = "process_event" =>
        /\ "alter_table_add_column" \in DriftOps
        /\ "name" \in Names(result.value.columns)
        /\ result.value.exc = NoExc
        /\ result.value.rows = <<ToRow(arg.event.after)>>

\* C37: the ChangeEvent that decoding an envelope returns has, as CREATE or
\* READ, an after image and no before image; as UPDATE both images; as
\* DELETE a before image and no after image.
C37_EventInvariants ==
    result.fn = "from_debezium_message" =>
        LET e == result.value
        IN  /\ e.operation \in {CREATE, READ} =>
                  e.after # NoneImg /\ e.before = NoneImg
            /\ e.operation = UPDATE =>
                  e.after # NoneImg /\ e.before # NoneImg
            /\ e.operation = DELETE =>
                  e.before # NoneImg /\ e.after = NoneImg

(***************************************************************************)
(* Properties of the initial load run more than once, checked under        *)
(* SpecRuns.                                                               *)
(***************************************************************************)
\* the tables perform_initial_load selects
Selected == TableSet(filter_tables(source.tables, load_config))

\* C38: no table is in completed_tables and in failed_tables at once,
\* however often the handler has loaded; when perform_initial_load has
\* returned, every selected table is in one of the two sets.
C38_CompletedFailedDisjoint ==
    /\ load.completed_tables \cap load.failed_tables = {}
    /\ (load.pc = "done" /\ load.needed) =>
           Selected \subseteq load.completed_tables \cup load.failed_tables

\* C39: when connect() has returned on both connectors and the first
\* administrative read is about to be issued, the connection each connector
\* keeps as its own is open, also after an earlier disconnect().
C39_PrimaryOpenAfterConnect ==
    load.pc = "connected" =>
        /\ conn.source \in conn.open
        /\ conn.target \in conn.open

\* C40: a run of perform_initial_load inserts nothing into a table that
\* held rows when the run began, and the target holds no source row twice.
C40_LoadedTablesNotCopied ==
    \A t \in Tables :
        /\ load.target_rows[t] # <<>> => load.inserted[t] = <<>>
        /\ \A i, j \in 1..Len(target.committed[t]) :
               i # j => target.committed[t][i] # target.committed[t][j]

=============================================================================
